---- MODULE Spec2Model ----
(***************************************************************************)
(* Model of the SimpliSafe RF base station of simplisafe/devices.py.       *)
(*                                                                         *)
(* The base station is one device thread (AbstractDevice._recv) that runs  *)
(* _process_msg for each received message, plus one threading.Timer thread *)
(* per scheduled countdown tick.  A handler is one atomic action.  Python  *)
(* exceptions are modelled as they occur: an exception ends the handler at *)
(* the raising statement, keeps the assignments made before it, and ends   *)
(* the thread that ran the handler (_recv has no try/except).              *)
(*                                                                         *)
(* Names that devices.py takes from "from simplisafe.messages import *"    *)
(* (the message classes, ArmedStatus) are not defined in the repository    *)
(* files at hand; they are taken to resolve, ArmedStatus to the members of *)
(* ArmedState.  Init is the state of the object when BaseStation.__init__  *)
(* starts the device thread.                                               *)
(*                                                                         *)
(* The message classes of SimpliSafe.py are modelled apart (CodecSpec):    *)
(* bytes(msg) and Message.factory as operators on byte sequences, run on   *)
(* the frames of a set of leaf messages, on those frames with one bit      *)
(* flipped, and on those frames with one payload byte replaced under a     *)
(* recomputed checksum, or cut short at any length.                        *)
(*                                                                         *)
(* Further specifications share the variables of the radio:                *)
(*   SerialSpec     pack and unpack of ASCII_4B5C serials (SimpliSafe.py)  *)
(*   ModemSpec      Transceiver of simplisafe/pigpio.py: send_wave,        *)
(*                  send_script, _listen_cbf, _listen, decode, pulse by    *)
(*                  pulse on one line                                      *)
(*   RFSpec         RFUtils.py: _recv_cbf and recv on a line with a glitch *)
(*   SequenceSpec   the sequence counters of base station, keypad, sensor  *)
(*   SensorSpec     Sensor._send and the three transmissions of            *)
(*                  Transceiver.send, second by second                     *)
(*   LinkSpec       the pipe between Transceiver._listen and               *)
(*                  AbstractDevice._recv                                   *)
(*   HeartbeatSpec  BaseStation._heartbeat_timer and its Timers            *)
(*   KeypadSpec     the buttons of Keypad and its _process_msg             *)
(*   ThreadSpec     _process_msg and _countdown line by line, the device   *)
(*                  thread and the Timer threads interleaved               *)
(*   DemodSpec      _listen_cbf and _recv_cbf on a line of arbitrary edges *)
(*   TripSpec       the base station with entry, motion and glassbreak     *)
(*                  sensor under each setting                              *)
(*   PinSpec        the base station under the messages of the PIN menu    *)
(* Each says at its actions what the variables hold.                       *)
(*                                                                         *)
(* Record constructors list their fields in the order in which TLC keeps   *)
(* them (the order in which the field names first occur in the module), so *)
(* that no TLC worker has to reorder a record another worker reads.        *)
(***************************************************************************)
EXTENDS Integers, Sequences, FiniteSets, TLC

\* ---------------------------------------------------------------- bounds
\* the transmissions put on the air in one run of the radio model
MaxSends == 2
\* the edges that may pass while the listener thread has not yet seen _rx_done
MaxMissed == 1
\* microseconds of silence between two transmissions
IdleGap == 5000
\* a pulse width in microseconds that is neither a 0 nor a 1
BadWidth == 750
\* the width in microseconds of a glitch on the line
GlitchWidth == 300
\* the hours the heartbeat supervision is followed
MaxHours == 72
\* the frames the listener writes to the pipe
MaxWrites == 3
\* the most symbols a demodulator collects on a line of arbitrary edges
MaxBits == 4
\* how far below zero _time_left is followed when threads interleave
MaxOverrun == 1
\* the largest scroll index of the keypad's remove-component menu
MaxScroll == 3
\* the events of one sensor, and the seconds the clock runs
MaxEvents == 2
MaxTime == 8
\* settings["exit_delay"], ["entry_delay_away"], ["entry_delay_home"],
\* scaled down from the defaults 45 / 30 / 1 seconds
ExitDelay == 3
EntryDelayAway == 2
EntryDelayHome == 1
\* largest number of countdown Timer threads alive at once
MaxTimers == 2

\* ------------------------------------------------------------- constants
\* Python's None, True and False, and the truth value of an object
None == "None"

True == "True"

False == "False"

truthy(v) == v \notin {None, False}

bool(v) == IF truthy(v) THEN True ELSE False

ArmedState == [OFF |-> "OFF", ARMED_AWAY |-> "ARMED_AWAY",
               ARMED_HOME |-> "ARMED_HOME", ARMING_AWAY |-> "ARMING_AWAY"]

\* resolved through the star import of simplisafe.messages
ArmedStatus == ArmedState

DeviceType == [KEYPAD |-> "KEYPAD", KEYCHAIN_REMOTE |-> "KEYCHAIN_REMOTE",
               MOTION_SENSOR |-> "MOTION_SENSOR", ENTRY_SENSOR |-> "ENTRY_SENSOR",
               GLASSBREAK_SENSOR |-> "GLASSBREAK_SENSOR"]

\* IntEnum members compare as integers, also across enum classes
KeypadSetting == [PANIC_ENABLED |-> 1, PANIC_DISABLED |-> 2]
KeychainRemoteSetting == [PANIC_DISABLED |-> 2, DISABLED |-> 0, Enabled |-> 1]
MotionSensorSetting == [DISABLED |-> 0, ALARM_HOME_AND_AWAY |-> 1,
                        ALARM_AWAY_ONLY |-> 2, NO_ALARM_ALERT_ONLY |-> 64]
EntrySensorSetting == [DISABLED |-> 0, ALARM_HOME_AND_AWAY |-> 1,
                       ALARM_AWAY_ONLY |-> 2, NO_ALARM_ALERT_ONLY |-> 64]
GlassbreakSensorSetting == [DISABLED |-> 0, ALARM_HOME_AND_AWAY |-> 1,
                            ALARM_AWAY_ONLY |-> 2]

KeychainRemoteEventType == [OFF |-> 3, PANIC |-> 1, AWAY |-> 2]
MotionSensorEventType == [HEARTBEAT |-> 0, MOTION |-> 2]
EntrySensorEventType == [OPEN |-> 1, CLOSED |-> 2]
\* the events GlassbreakSensor sends (devices.py 901-908); the class of the
\* message is among the names of simplisafe.messages, its values are taken
\* to be distinct
GlassbreakSensorEventType == [HEARTBEAT |-> 0, GLASSBREAK |-> 1, GLASSBREAK_TEST |-> 2]

\* the settings dict of BaseStation.__init__
settings == [exit_delay |-> ExitDelay, entry_delay_away |-> EntryDelayAway,
             entry_delay_home |-> EntryDelayHome]

\* PINs a keypad can send; the first is the master PIN given to __init__
Pins == {"1234", "2222", "9999"}
MasterPin == "1234"
DuressPin == "2222"

\* ------------------------------------------------------------ components
\* add_component: the record stored in _components under the serial
add_component(sn, cls, setting, instant_trigger) ==
  [sn |-> sn, setting |-> setting, type |-> cls,
   instat_trigger |-> IF cls \in {DeviceType.ENTRY_SENSOR, DeviceType.MOTION_SENSOR,
                                  DeviceType.GLASSBREAK_SENSOR}
                      THEN bool(instant_trigger) ELSE None]

\* the values of the setting enum that add_component applies for the type
SettingValues(cls) ==
  CASE cls = DeviceType.KEYPAD -> { KeypadSetting[f] : f \in DOMAIN KeypadSetting }
    [] cls = DeviceType.KEYCHAIN_REMOTE ->
         { KeychainRemoteSetting[f] : f \in DOMAIN KeychainRemoteSetting }
    [] cls = DeviceType.MOTION_SENSOR ->
         { MotionSensorSetting[f] : f \in DOMAIN MotionSensorSetting }
    [] cls = DeviceType.ENTRY_SENSOR ->
         { EntrySensorSetting[f] : f \in DOMAIN EntrySensorSetting }
    [] cls = DeviceType.GLASSBREAK_SENSOR ->
         { GlassbreakSensorSetting[f] : f \in DOMAIN GlassbreakSensorSetting }

\* dict.get(key): the value stored under key, None when the key is absent
get(c, key) == IF key \in DOMAIN c THEN c[key] ELSE None

\* the components lists handed to __init__ : <<keypad, keychain, entry, motion, instant_trip>>
ConfigChoices ==
  { <<1, 1, 1, 2, True>>, <<2, 2, 2, 1, False>>, <<1, 0, 64, 64, False>>,
    <<1, 0, 64, 1, True>> }

Configs ==
  { << add_component("KP", DeviceType.KEYPAD, t[1], None),
       add_component("KR", DeviceType.KEYCHAIN_REMOTE, t[2], None),
       add_component("ES", DeviceType.ENTRY_SENSOR, t[3], t[5]),
       add_component("MS", DeviceType.MOTION_SENSOR, t[4], None) >> : t \in ConfigChoices }

VARIABLES
  _armed,            \* BaseStation._armed
  _time_left,        \* BaseStation._time_left
  _time_left_timer,  \* the Timer self._time_left_timer refers to: [st, stale]
  timers,            \* live countdown Timer threads that no attribute refers to any more
  _siren_timer,      \* self._siren_timer
  sequence,          \* AbstractDevice.sequence
  _master_pin,       \* BaseStation._master_pin
  _duress_pin,       \* BaseStation._duress_pin
  _pins,             \* BaseStation._pins
  _components,       \* BaseStation._components, in insertion order
  recv_alive,        \* the device thread of AbstractDevice.__init__ still runs
  siren_on,          \* host siren: start_siren() called and no stop_siren() since
  entry_cd,          \* an entry countdown started by _trip is in progress
  cd,                \* ticks since the last arm-away or trip handler
  last,              \* the handler that ran last and what it did
  value,             \* SimpliSafe.py: the message object handed to bytes()
  frame,             \* SimpliSafe.py: the bytes handed to Message.factory
  stage,             \* SimpliSafe.py: how far the frame got, and how it was made
  parsed,            \* SimpliSafe.py: what Message.factory returned or raised
  w,                 \* the pulses still to be played; calls and Timers still to run
  line,              \* the radio line: its level and the tick of the pulse in play; the clock
  rx,                \* the fields of the demodulator callback
  pipe,              \* the bytes in the pipe between listener and device thread
  log,               \* what was put on the air, written to the pipe or handled
  dev                \* the frames sent or written; the fields of the devices

codec == <<value, frame, stage, parsed>>

radio == <<w, line, rx, pipe, log, dev>>

vars == <<_armed, _time_left, _time_left_timer, timers, _siren_timer, sequence,
          _master_pin, _duress_pin, _pins, _components, recv_alive, siren_on,
          entry_cd, cd, last, value, frame, stage, parsed, w, line, rx, pipe, log, dev>>

\* ------------------------------------------------ threading.Timer objects
\* A Timer is "initial" (constructed, start() not called), "waiting" (started,
\* interval not over), "fired" (interval over, finished flag checked, callback
\* not yet entered), "running" (in its callback) or "done" (cancelled or ended).
\* "unset" stands for an attribute that was never assigned.
is_alive(st) == st \in {"waiting", "fired", "running"}

TimerKinds == {"waiting", "fired"} \X BOOLEAN

NoTimers == [k \in TimerKinds |-> 0]

\* number of countdown Timer threads alive
Live(s) ==
  (IF is_alive(s.tlt.st) THEN 1 ELSE 0)
  + s.timers[<<"waiting", FALSE>>] + s.timers[<<"waiting", TRUE>>]
  + s.timers[<<"fired", FALSE>>] + s.timers[<<"fired", TRUE>>]

\* ------------------------------------------------------ handler execution
\* The object's fields while a handler runs, with the log of what it did.
Begin ==
  [timers |-> timers, sequence |-> sequence, siren_on |-> siren_on,
   entry_cd |-> entry_cd, tlt |-> _time_left_timer, armed |-> _armed,
   time_left |-> _time_left, siren_timer |-> _siren_timer,
   master_pin |-> _master_pin, components |-> _components,
   exc |-> FALSE, sent |-> <<>>, calls |-> <<>>, path |-> {},
   branch |-> "none", tl0 |-> -1]

\* an exception is raised: the rest of the handler does not run
Raise(s) == [s EXCEPT !.exc = TRUE]

\* a method of BaseStation is entered
Enter(s, method) == [s EXCEPT !.path = @ \cup {method}]

\* a host hook (alarm, arm_away, arm_home, disarm, start_siren, stop_siren) is called
Call(s, hook) ==
  [s EXCEPT !.calls = Append(@, hook),
            !.siren_on = IF hook = "start_siren" THEN TRUE
                         ELSE IF hook = "stop_siren" THEN FALSE ELSE @]

\* AbstractDevice._inc
_inc(s) == [s EXCEPT !.sequence = (@ + 1) % 15]

\* AbstractDevice._send: transmit, then advance the sequence counter
_send(s, msg) ==
  IF s.exc THEN s ELSE _inc([s EXCEPT !.sent = Append(@, msg)])

is_armed_away(s) == s.armed = ArmedState.ARMED_AWAY

is_armed_home(s) == s.armed = ArmedState.ARMED_HOME

\* is_armed that also holds during the exit delay
is_armed_or_arming(s) ==
  is_armed_away(s) \/ is_armed_home(s) \/ s.armed = ArmedState.ARMING_AWAY

is_armed(s) == is_armed_away(s) \/ is_armed_home(s)

is_arming(s) == s.armed = ArmedState.ARMING_AWAY

\* self._time_left_timer = Timer(1, self._countdown); self._time_left_timer.start()
\* The Timer the attribute referred to keeps running when it is still alive.
StartCountdownTimer(s) ==
  [s EXCEPT !.tlt = [st |-> "waiting", stale |-> FALSE],
            !.timers = IF s.tlt.st \in {"waiting", "fired"}
                       THEN [@ EXCEPT ![<<s.tlt.st, s.tlt.stale>>] = @ + 1]
                       ELSE @]

\* BaseStation._cancel_countdown
_cancel_countdown(s) ==
  IF s.exc THEN s
  ELSE IF s.tlt.st = "unset" THEN Raise(s)   \* AttributeError: never assigned
  ELSE [s EXCEPT !.tlt.st = IF @ = "waiting" THEN "done" ELSE @,
                 !.time_left = 0,
                 !.entry_cd = FALSE]

\* _alarm without the test of the siren timer: the siren is started on every call
_alarm_restart(s, silent) ==
  LET s0 == [Enter(s, IF silent THEN "_alarm(True)" ELSE "_alarm()") EXCEPT !.entry_cd = FALSE]
      s1 == _cancel_countdown(s0)
      s2 == IF s1.exc \/ silent THEN s1
            ELSE Raise([Call(s1, "start_siren") EXCEPT !.siren_timer = "initial"])
  IN IF s.exc THEN s
     ELSE IF s2.exc THEN s2 ELSE Call(s2, "alarm")

\* BaseStation._alarm
_alarm(s, silent) ==
  LET s0 == [Enter(s, IF silent THEN "_alarm(True)" ELSE "_alarm()") EXCEPT !.entry_cd = FALSE]
      s1 == _cancel_countdown(s0)
      s2 == IF s1.exc \/ silent THEN s1
            ELSE IF s1.siren_timer # None
                 THEN Raise(s1)    \* self._sirent_timer.is_alive(): AttributeError
                 ELSE Raise([Call(s1, "start_siren") EXCEPT !.siren_timer = "initial"])
                                   \* self._sirent_timer.start(): AttributeError
  IN IF s.exc THEN s
     ELSE IF s2.exc THEN s2 ELSE Call(s2, "alarm")

\* BaseStation._countdown
_countdown(s) ==
  IF s.exc THEN s
  ELSE IF ~is_armed(s) /\ ~is_arming(s)
       THEN _cancel_countdown([s EXCEPT !.branch = "cancel"])
  ELSE IF is_armed(s)
       THEN IF s.time_left = 0
            THEN _alarm([s EXCEPT !.branch = "alarm"], FALSE)
            ELSE StartCountdownTimer([s EXCEPT !.time_left = @ - 1, !.branch = "tick_armed"])
  ELSE IF s.time_left = 0
       THEN Call([s EXCEPT !.armed = ArmedState.ARMED_AWAY, !.branch = "armed_away"],
                 "arm_away")
       ELSE StartCountdownTimer([s EXCEPT !.time_left = @ - 1, !.branch = "tick_arming"])

\* BaseStation._arm_away
_arm_away(s) ==
  IF s.exc THEN s
  ELSE _countdown([Enter(s, "_arm_away") EXCEPT !.armed = ArmedStatus.ARMING_AWAY,
                                                  !.time_left = settings.exit_delay,
                                                  !.entry_cd = FALSE])

\* BaseStation._arm_home
_arm_home(s) ==
  IF s.exc THEN s
  ELSE Call([s EXCEPT !.armed = ArmedStatus.ARMED_HOME], "arm_home")

\* _disarm without the assignment of ArmedState.OFF
_disarm_stays_armed(s) ==
  IF s.exc THEN s
  ELSE Call(Call(Enter(s, "_disarm"), "stop_siren"), "disarm")

\* BaseStation._disarm.  The siren Timer is cancelled when alive; the countdown
\* Timers are left alone (marked as scheduled before a disarm).
_disarm(s) ==
  IF s.exc THEN s
  ELSE LET s1 == [Enter(s, "_disarm") EXCEPT
                           !.armed = ArmedState.OFF,
                           !.siren_timer = IF is_alive(@) THEN "done" ELSE @,
                           !.entry_cd = FALSE,
                           !.tlt.stale = IF is_alive(s.tlt.st) THEN TRUE ELSE @,
                           !.timers = [k \in TimerKinds |->
                                         IF k[2] THEN s.timers[<<k[1], TRUE>>] + s.timers[<<k[1], FALSE>>]
                                         ELSE 0]]
       IN Call(Call(s1, "stop_siren"), "disarm")

\* BaseStation._trip, lines 393-396: the entry delay chosen for the armed mode
TripDelay(s) ==
  IF is_armed_away(s) THEN settings.entry_delay_away
  ELSE IF is_armed_away(s) THEN settings.entry_delay_home
  ELSE s.time_left

\* BaseStation._trip with trip_function = self._alarm
_trip(s, instant_trip) ==
  IF s.exc THEN s
  ELSE IF truthy(instant_trip) THEN _alarm(Enter(s, "_trip"), FALSE)
  ELSE IF s.time_left = 0
       THEN LET d == TripDelay(s)
                r == _countdown([Enter(s, "_trip") EXCEPT !.time_left = d, !.tl0 = d])
            IN [r EXCEPT !.entry_cd = ~r.exc /\ "_alarm()" \notin r.path]
  ELSE Enter(s, "_trip")

\* _trip_alert with the alert taken for an alarm: the trip of _trip
_trip_alert_as_alarm(s, instant_trip) == _trip(s, instant_trip)

\* self._trip(self._alert, c.get('instant_trip')), lines 373 and 380:
\* BaseStation has no attribute _alert, the AttributeError is raised while
\* the arguments are evaluated and _trip is not entered
_trip_alert(s, instant_trip) == IF s.exc THEN s ELSE Raise(s)

\* ----------------------------------------------------------- _process_msg
\* the serials of the devices that transmit; "XX" is never enrolled
Enrolled(s) == { s.components[i].sn : i \in DOMAIN s.components }

Component(s, sn) == CHOOSE c \in { s.components[i] : i \in DOMAIN s.components } : c.sn = sn

\* BaseStation.remove_component
remove_component(s, sn) ==
  IF s.exc THEN s
  ELSE [s EXCEPT !.components = SelectSeq(@, LAMBDA c : c.sn # sn)]

\* BaseStation.add_component called on the running object: the setting is
\* converted by the enum of the type (ValueError when it is no member, as
\* None is), then _components.update stores the record under the serial
_components_update(s, sn, cls, setting, instant_trigger) ==
  IF s.exc THEN s
  ELSE IF setting = None THEN Raise(s)
  ELSE IF setting \notin SettingValues(cls) THEN Raise(s)
  ELSE LET c == add_component(sn, cls, setting, instant_trigger)
       IN IF sn \in Enrolled(s)
          THEN [s EXCEPT !.components =
                  [i \in DOMAIN @ |-> IF @[i].sn = sn THEN c ELSE @[i]]]
          ELSE [s EXCEPT !.components = Append(@, c)]

\* the device type and the response class that _process_msg picks for an
\* add-component menu request (lines 315-344)
AddRequestType ==
  [KeypadAddKeypadMenuRequest |-> DeviceType.KEYPAD,
   KeypadAddKeychainRemoteMenuRequest |-> DeviceType.KEYCHAIN_REMOTE,
   KeypadAddMotionSensorMenuRequest |-> DeviceType.MOTION_SENSOR,
   KeypadAddEntrySensorMenuRequest |-> DeviceType.ENTRY_SENSOR]

\* msg_class(..., ResponseType.COMPONENT_ADDED)
ComponentAddedResponse ==
  [KeypadAddKeypadMenuRequest |-> "BaseStationKeypadAddKeypadMenuResponse.COMPONENT_ADDED",
   KeypadAddKeychainRemoteMenuRequest |->
     "BaseStationKeypadAddKeychainRemoteMenuResponse.COMPONENT_ADDED",
   KeypadAddMotionSensorMenuRequest |->
     "BaseStationKeypadAddMotionSensorMenuResponse.COMPONENT_ADDED",
   KeypadAddEntrySensorMenuRequest |->
     "BaseStationKeypadAddEntrySensorMenuResponse.COMPONENT_ADDED"]

\* BaseStation._process_msg, the branch of the add-component menu requests.
\* For a serial that is enrolled, response_type is set and msg_class is not:
\* msg_class(...) at line 349 raises UnboundLocalError.  For a new serial the
\* class chain picks the type (the misspelt class name of line 318 raises
\* NameError if it does not resolve) and add_component is called without a
\* setting, which raises as well; the response is sent after it returns.
AddComponentMenuRequest(s, msg) ==
  IF msg.c_sn \in Enrolled(s) THEN Raise(s)
  ELSE _send(_components_update(s, msg.c_sn, AddRequestType[msg.cls], None, None),
             ComponentAddedResponse[msg.cls])

\* a dropped message that moves the sequence counter
Drop_counted(s) == _inc(s)

\* BaseStation._process_msg, "return" of a message that is not accepted
Drop(s) == s

\* BaseStation._process_msg, the branch of each message class
_process_msg(s, msg) ==
  IF msg.cls = "BaseStationKeypadMessage" THEN Drop(s)
  ELSE IF msg.sn \notin Enrolled(s) THEN Drop(s)     \* component not enrolled
  ELSE
  LET c == Component(s, msg.sn)
      setting == get(c, "setting")
  IN
  CASE msg.cls = "KeypadAlarmPinRequest" ->
         IF \/ msg.pin = _duress_pin
            \/ msg.pin = s.master_pin
            \/ \E i \in DOMAIN _pins : _pins[i].pin = msg.pin
         THEN LET s1 == _disarm(_send(s, "BaseStationKeypadAlarmPinResponse.DISARM"))
              IN IF msg.pin = _duress_pin THEN _alarm(s1, TRUE) ELSE s1
         ELSE _send(s, "BaseStationKeypadAlarmPinResponse.INVALID")
    [] msg.cls = "KeypadHomeRequest" ->
         _send(_arm_home(s), "BaseStationKeypadHomeResponse")
    [] msg.cls = "KeypadPanicRequest" ->
         IF setting = KeypadSetting.PANIC_ENABLED THEN _alarm(s, FALSE) ELSE s
    [] msg.cls = "KeypadAwayRequest" ->
         _send(_arm_away(s), "BaseStationKeypadAwayResponse")
    [] msg.cls = "KeypadOffRequest" ->
         _send(s, "BaseStationKeypadOffRequest")
    [] msg.cls = "KeypadMenuPinRequest" ->
         IF msg.pin = s.master_pin
         THEN _send(s, "BaseStationKeypadValidMenuPinResponse")
         ELSE _send(s, "BaseStationKeypadInvalidMenuPinResponse")
    [] msg.cls = "KeypadNewPinRequest" ->
         [s EXCEPT !.master_pin = msg.pin]
    [] msg.cls = "KeypadEnterMenuRequest" ->
         _send(s, "BaseStationKeypadEnterMenuResponse")
    [] msg.cls = "KeypadExitMenuRequest" ->
         _send(s, "BaseStationKeypadExitMenuResponse")
    [] msg.cls = "KeypadRemoveComponentConfirmMenuRequest" ->
         _send(remove_component(s, msg.c_sn),
               "BaseStationKeypadRemoveComponentConfirmMenuResponse")
    [] msg.cls \in DOMAIN AddRequestType ->
         AddComponentMenuRequest(s, msg)
    [] msg.cls = "KeychainRemoteMessage" ->
         IF setting = KeychainRemoteSetting.DISABLED THEN s
         ELSE IF msg.event_type = KeychainRemoteEventType.PANIC
              THEN IF setting = KeychainRemoteSetting.PANIC_DISABLED THEN s
                   ELSE _alarm(s, FALSE)
         ELSE IF msg.event_type = KeychainRemoteEventType.AWAY THEN _arm_away(s)
         ELSE IF msg.event_type = KeychainRemoteEventType.OFF THEN _disarm(s)
         ELSE s
    [] msg.cls = "MotionSensorMessage" ->
         IF msg.event_type # MotionSensorEventType.MOTION THEN s
         ELSE IF \/ setting = MotionSensorSetting.ALARM_HOME_AND_AWAY /\ is_armed(s)
                 \/ setting = MotionSensorSetting.ALARM_AWAY_ONLY /\ is_armed_away(s)
              THEN _trip(s, get(c, "instant_trip"))
         ELSE IF setting = MotionSensorSetting.NO_ALARM_ALERT_ONLY /\ is_armed(s)
              THEN _trip_alert(s, get(c, "instant_trip"))
         ELSE s
    [] msg.cls = "EntrySensorMessage" ->
         IF msg.event_type # EntrySensorEventType.OPEN THEN s
         ELSE IF \/ setting = EntrySensorSetting.ALARM_HOME_AND_AWAY /\ is_armed(s)
                 \/ setting = EntrySensorSetting.ALARM_AWAY_ONLY /\ is_armed_away(s)
              THEN _trip(s, get(c, "instant_trip"))
         ELSE IF setting = EntrySensorSetting.NO_ALARM_ALERT_ONLY /\ is_armed(s)
              THEN _trip_alert(s, get(c, "instant_trip"))
         ELSE s
    [] msg.cls = "GlassbreakSensorMessage" ->
         IF msg.event_type # GlassbreakSensorEventType.GLASSBREAK THEN s
         ELSE IF \/ setting = GlassbreakSensorSetting.ALARM_HOME_AND_AWAY /\ is_armed(s)
                 \/ setting = GlassbreakSensorSetting.ALARM_AWAY_ONLY /\ is_armed_away(s)
              THEN _trip(s, get(c, "instant_trip"))
         ELSE s

\* ------------------------------------------------------ history variables
\* number of times hook occurs in a handler's calls
Count(calls, hook) == Cardinality({ i \in DOMAIN calls : calls[i] = hook })

Min(a, b) == IF a < b THEN a ELSE b

\* the entry delay configured for the armed mode
EntryDelay(armed) ==
  IF armed = ArmedState.ARMED_HOME THEN settings.entry_delay_home
  ELSE settings.entry_delay_away

NoCd == [d |-> 0, kind |-> "none", n |-> 0, alarms |-> 0]

\* cd after a message handler: an arm-away or a trip that chose a delay starts
\* counting, any other processed message ends it
CdAfterMsg(s, r) ==
  IF "_arm_away" \in r.path
  THEN [d |-> settings.exit_delay, kind |-> "arm", n |-> 0, alarms |-> 0]
  ELSE IF r.tl0 # -1
  THEN [d |-> EntryDelay(s.armed), kind |-> "trip", n |-> 0,
        alarms |-> Count(r.calls, "alarm")]
  ELSE NoCd

\* cd after one run of the countdown callback
CdAfterTick(r) ==
  IF cd.kind = "none" THEN cd
  ELSE [cd EXCEPT !.n = Min(@ + 1, cd.d + 1),
                  !.alarms = Min(@ + Count(r.calls, "alarm"), 2)]

\* the fields of the object after a handler
Commit(r) ==
  /\ _armed' = r.armed
  /\ _time_left' = r.time_left
  /\ _time_left_timer' = r.tlt
  /\ timers' = r.timers
  /\ _siren_timer' = r.siren_timer
  /\ sequence' = r.sequence
  /\ _master_pin' = r.master_pin
  /\ _components' = r.components
  /\ siren_on' = r.siren_on
  /\ entry_cd' = r.entry_cd
  /\ UNCHANGED <<_duress_pin, _pins, codec, radio>>

Log(op, msg, stale, r) ==
  [exc |-> r.exc, sent |-> r.sent, calls |-> r.calls, path |-> r.path,
   branch |-> r.branch, tl0 |-> r.tl0, msg |-> msg, stale |-> stale, op |-> op]

\* ---------------------------------------------------------------- actions
\* AbstractDevice._recv: the device thread takes one message and processes it;
\* an exception in the handler ends the thread
Deliver(msg) ==
  /\ recv_alive
  /\ LET r == _process_msg(Begin, msg)
     IN /\ Live(r) <= MaxTimers
        /\ Commit(r)
        /\ recv_alive' = ~r.exc
        /\ cd' = CdAfterMsg(Begin, r)
        /\ last' = Log("msg", msg, FALSE, r)

KeypadAlarmPinRequest ==
  \E sn \in {"KP"}, pin \in Pins :
    Deliver([sn |-> sn, cls |-> "KeypadAlarmPinRequest", pin |-> pin, event_type |-> 0])

KeypadHomeRequest ==
  \E sn \in {"KP"} :
    Deliver([sn |-> sn, cls |-> "KeypadHomeRequest", pin |-> None, event_type |-> 0])

KeypadPanicRequest ==
  \E sn \in {"KP"} :
    Deliver([sn |-> sn, cls |-> "KeypadPanicRequest", pin |-> None, event_type |-> 0])

KeypadAwayRequest ==
  \E sn \in {"KP"} :
    Deliver([sn |-> sn, cls |-> "KeypadAwayRequest", pin |-> None, event_type |-> 0])

KeypadOffRequest ==
  \E sn \in {"KP"} :
    Deliver([sn |-> sn, cls |-> "KeypadOffRequest", pin |-> None, event_type |-> 0])

KeychainRemoteMessage ==
  \E sn \in {"KR"}, e \in {1, 2, 3} :
    Deliver([sn |-> sn, cls |-> "KeychainRemoteMessage", pin |-> None, event_type |-> e])

MotionSensorMessage ==
  \E sn \in {"MS"}, e \in {0, 2} :
    Deliver([sn |-> sn, cls |-> "MotionSensorMessage", pin |-> None, event_type |-> e])

EntrySensorMessage ==
  \E sn \in {"ES"}, e \in {1, 2} :
    Deliver([sn |-> sn, cls |-> "EntrySensorMessage", pin |-> None, event_type |-> e])

\* a message from a serial that is not enrolled; a dropped message is logged
\* without its class and serial

UnenrolledMessage ==
  \E cls \in {"KeypadAwayRequest", "EntrySensorMessage"} :
    /\ recv_alive
    /\ LET r == _process_msg(Begin, [sn |-> "XX", cls |-> cls, pin |-> MasterPin, event_type |-> 2])
       IN /\ Commit(r)
          /\ recv_alive' = ~r.exc
          /\ cd' = cd
          /\ last' = Log("msg", [sn |-> None, cls |-> "any", pin |-> None, event_type |-> 0], FALSE, r)

\* a base-station-to-keypad message, addressed to the enrolled keypad
BaseStationKeypadMessage ==
  \E sn \in {"KP"} :
    /\ recv_alive
    /\ LET r == _process_msg(Begin, [sn |-> sn, cls |-> "BaseStationKeypadMessage", pin |-> None, event_type |-> 0])
       IN /\ Commit(r)
          /\ recv_alive' = ~r.exc
          /\ cd' = cd
          /\ last' = Log("msg", [sn |-> None, cls |-> "any", pin |-> None, event_type |-> 0], FALSE, r)

\* ------------------------------------------------- keypad menu messages
\* serials that menu requests name: the enrolled ones and a new one
MenuSerials == {"KP", "KR", "ES", "MS", "NEW"}

\* the device thread processes a menu message of the enrolled keypad
DeliverMenu(msg) ==
  /\ recv_alive
  /\ LET r == _process_msg(Begin, msg)
     IN /\ Commit(r)
        /\ recv_alive' = ~r.exc
        /\ cd' = cd
        /\ last' = Log("msg", msg, FALSE, r)

KeypadEnterMenuRequest ==
  \E sn \in {"KP"} :
    DeliverMenu([sn |-> sn, cls |-> "KeypadEnterMenuRequest", c_sn |-> None, pin |-> None,
                 event_type |-> 0])

KeypadMenuPinRequest ==
  \E sn \in {"KP"}, pin \in Pins :
    DeliverMenu([sn |-> sn, cls |-> "KeypadMenuPinRequest", c_sn |-> None, pin |-> pin,
                 event_type |-> 0])

KeypadExitMenuRequest ==
  \E sn \in {"KP"} :
    DeliverMenu([sn |-> sn, cls |-> "KeypadExitMenuRequest", c_sn |-> None, pin |-> None,
                 event_type |-> 0])

KeypadRemoveComponentConfirmMenuRequest ==
  \E sn \in {"KP"}, c_sn \in MenuSerials :
    DeliverMenu([sn |-> sn, cls |-> "KeypadRemoveComponentConfirmMenuRequest",
                 c_sn |-> c_sn, pin |-> None, event_type |-> 0])

KeypadAddComponentSerialMenuRequest ==
  \E sn \in {"KP"}, cls \in DOMAIN AddRequestType, c_sn \in MenuSerials :
    DeliverMenu([sn |-> sn, cls |-> cls, c_sn |-> c_sn, pin |-> None, event_type |-> 0])

\* threading.Timer.run, first half: the interval is over and the Timer was not
\* cancelled; from here cancel() no longer stops the callback
TimerExpire ==
  /\ \/ /\ _time_left_timer.st = "waiting"
        /\ _time_left_timer' = [_time_left_timer EXCEPT !.st = "fired"]
        /\ timers' = timers
     \/ \E b \in BOOLEAN :
          /\ timers[<<"waiting", b>>] > 0
          /\ timers' = [timers EXCEPT ![<<"waiting", b>>] = @ - 1,
                                      ![<<"fired", b>>] = @ + 1]
          /\ _time_left_timer' = _time_left_timer
  /\ UNCHANGED <<_armed, _time_left, _siren_timer, sequence, _master_pin, _duress_pin,
                 _pins, _components, recv_alive, siren_on, entry_cd, cd, last, codec,
                 radio>>

\* threading.Timer.run, second half: the Timer thread runs _countdown and ends
CountdownTick ==
  \E own \in BOOLEAN, b \in BOOLEAN :
    /\ IF own THEN _time_left_timer.st = "fired" /\ _time_left_timer.stale = b
              ELSE timers[<<"fired", b>>] > 0
    /\ LET s == IF own THEN [Begin EXCEPT !.tlt.st = "running"]
                       ELSE [Begin EXCEPT !.timers[<<"fired", b>>] = @ - 1]
           r == _countdown(s)
           e == IF r.tlt.st = "running" THEN [r EXCEPT !.tlt.st = "done"] ELSE r
       IN /\ Commit(e)
          /\ cd' = CdAfterTick(e)
          /\ last' = Log("tick", [sn |-> None, cls |-> "Timer", pin |-> None, event_type |-> 0], b, e)
    /\ UNCHANGED recv_alive

Init ==
  /\ _armed = ArmedState.OFF
  /\ _time_left = 0
  /\ _time_left_timer = [st |-> "unset", stale |-> FALSE]
  /\ timers = NoTimers
  /\ _siren_timer = None
  /\ sequence = 0
  /\ _master_pin = MasterPin
  /\ _duress_pin = DuressPin
  /\ _pins = <<>>
  /\ _components \in Configs
  /\ recv_alive = TRUE
  /\ siren_on = FALSE
  /\ entry_cd = FALSE
  /\ cd = NoCd
  /\ value = None
  /\ frame = <<>>
  /\ stage = "idle"
  /\ parsed = None
  /\ w = <<>>
  /\ line = [level |-> 0, tick |-> 0, missed |-> 0]
  /\ rx = None
  /\ pipe = <<>>
  /\ log = <<>>
  /\ dev = None
  /\ last = [exc |-> FALSE, sent |-> <<>>, calls |-> <<>>, path |-> {},
             branch |-> "none", tl0 |-> -1,
             msg |-> [sn |-> None, cls |-> "none", pin |-> None, event_type |-> 0],
             stale |-> FALSE, op |-> "init"]

Next ==
  \/ KeypadAlarmPinRequest
  \/ KeypadHomeRequest
  \/ KeypadPanicRequest
  \/ KeypadAwayRequest
  \/ KeypadOffRequest
  \/ KeychainRemoteMessage
  \/ MotionSensorMessage
  \/ EntrySensorMessage
  \/ UnenrolledMessage
  \/ BaseStationKeypadMessage
  \/ TimerExpire
  \/ CountdownTick

Spec == Init /\ [][Next]_vars

\* the base station under the menu messages of the keypad
MenuNext ==
  \/ KeypadEnterMenuRequest
  \/ KeypadMenuPinRequest
  \/ KeypadExitMenuRequest
  \/ KeypadRemoveComponentConfirmMenuRequest
  \/ KeypadAddComponentSerialMenuRequest

MenuSpec == Init /\ [][MenuNext]_vars

\* ===================================================== SimpliSafe.py codec
\* The message classes of SimpliSafe.py.  A bytes object is a sequence of
\* integers 0..255; a str is the sequence of its character codes, except that
\* a string of hexadecimal digits is the sequence of the digits' values and a
\* PIN is the sequence of its decimal digits.  Python index i is index i + 1.
\* A message object is [sn, cls, args]: its class, its serial number and the
\* other arguments of the class's __init__, in the order of its signature.
\* The outcome of a call is [exc, out]: the exception class it raised ("None"
\* if it returned) and the value it returned.

\* buffer[i]
At(buffer, i) == buffer[i + 1]

\* buffer[lo:hi]
Slice(buffer, lo, hi) == SubSeq(buffer, lo + 1, IF hi < Len(buffer) THEN hi ELSE Len(buffer))

\* (x >> lo) & (2 ** n - 1)
Bits(x, lo, n) == (x \div (2 ^ lo)) % (2 ^ n)

\* x ^ (1 << k) for a byte x
FlipBit(x, k) == IF Bits(x, k, 1) = 1 THEN x - 2 ^ k ELSE x + 2 ^ k

RECURSIVE sum(_)
sum(payload) == IF payload = <<>> THEN 0 ELSE Head(payload) + sum(Tail(payload))

Return(out) == [exc |-> "None", out |-> out]

RaiseExc(exc) == [exc |-> exc, out |-> <<>>]

\* the exceptions "except ValueError" catches: ValueError and its subclasses
ValueErrors == {"ValueError", "InvalidMessageBytesError", "UnicodeDecodeError"}

\* SerialNumberFormat.pack(ASCII_4B5C, s, hb, lb); hb and lb are 0 or 1
BLANK == 63

pack_ASCII_4B5C(s, hb, lb) ==
  LET b == [i \in 0..4 |-> IF i < Len(s) THEN At(s, i) - 48 ELSE BLANK]
  IN << Bits(b[1], 0, 4) * 16 + Bits(b[0], 0, 4),
        Bits(b[3], 0, 4) * 16 + Bits(b[2], 0, 4),
        Bits(b[1], 4, 2) * 64 + Bits(b[0], 4, 2) * 16 + Bits(b[4], 0, 4),
        hb * 128 + lb * 64 + Bits(b[4], 4, 2) * 16 + Bits(b[3], 4, 2) * 4
          + Bits(b[2], 4, 2) >>

\* the loop of SerialNumberFormat.unpack that stops at the first blank
RECURSIVE UntilBlank(_)
UntilBlank(b) ==
  IF b = <<>> \/ Head(b) = BLANK THEN <<>> ELSE <<Head(b) + 48>> \o UntilBlank(Tail(b))

\* SerialNumberFormat.unpack(ASCII_4B5C, buffer): the tuple (sn, hb, lb)
unpack_ASCII_4B5C(buffer) ==
  IF Len(buffer) < 4 THEN RaiseExc("ValueError")
  ELSE LET b == << Bits(At(buffer, 2), 4, 2) * 16 + Bits(At(buffer, 0), 0, 4),
                   Bits(At(buffer, 2), 6, 2) * 16 + Bits(At(buffer, 0), 4, 4),
                   Bits(At(buffer, 3), 0, 2) * 16 + Bits(At(buffer, 1), 0, 4),
                   Bits(At(buffer, 3), 2, 2) * 16 + Bits(At(buffer, 1), 4, 4),
                   Bits(At(buffer, 3), 4, 2) * 16 + Bits(At(buffer, 2), 0, 4) >>
       IN Return(<<UntilBlank(b), Bits(At(buffer, 3), 7, 1), Bits(At(buffer, 3), 6, 1)>>)

\* SerialNumberFormat.pack(HEX_5B6C, s)
pack_HEX_5B6C(s) ==
  <<At(s, 0), At(s, 1), At(s, 2), At(s, 5) * 16 + At(s, 3), At(s, 4)>>

\* SerialNumberFormat.unpack(HEX_5B6C, buffer)
unpack_HEX_5B6C(buffer) ==
  IF Len(buffer) < 5 THEN RaiseExc("ValueError")
  ELSE Return(<< Bits(At(buffer, 0), 0, 4), Bits(At(buffer, 1), 0, 4),
                 Bits(At(buffer, 2), 0, 4), Bits(At(buffer, 3), 0, 4),
                 Bits(At(buffer, 4), 0, 4), Bits(At(buffer, 3), 4, 4) >>)

\* Message.VENDOR_CODE = 0xCC05, as struct.pack(">H") writes it
VENDOR_CODE == <<204, 5>>

\* Message.PAYLOAD_LENGTHS
PAYLOAD_LENGTHS == (0 :> 7) @@ (17 :> 2) @@ (34 :> 3) @@ (51 :> 4) @@ (102 :> 7)

\* Message.OriginType
OriginType == [BASE_STATION |-> 0, KEYPAD |-> 1, KEYCHAIN_REMOTE |-> 2,
               MOTION_SENSOR |-> 4, ENTRY_SENSOR |-> 5]

OriginTypes == { OriginType[k] : k \in DOMAIN OriginType }

\* the values of KeypadMessage.EventType; ADD_GLASSBREAK_SENSOR_MENU_REQUEST
\* and ADD_SMOKE_DETECTOR_MENU_REQUEST are both 0x6E
EventType ==
  {17, 19, 20, 39, 40, 49, 50, 53, 54, 55} \cup (68..69) \cup (71..81)
    \cup {83, 84, 86, 87, 92, 94} \cup (97..100) \cup {102, 103, 105, 106, 107, 109, 110, 110}
    \cup (113..122)

\* BaseStationKeypadMessage.MessageType
MessageType == [RESPONSE |-> 1, UPDATE |-> 5]

\* BaseStationKeypadMessage.InfoType
InfoType == [STATUS |-> 2, MENU |-> 6]

\* the subclasses of a class and their event_type, in the order of
\* __subclasses__(), which is the order of the class statements
KeypadPinMessage_subclasses ==
  << <<"KeypadDisarmPinRequest", 81>>, <<"KeypadNewPinRequest", 98>>,
     <<"KeypadMenuPinRequest", 102>> >>

AbstractKeypadSimpleRequest_subclasses ==
  << <<"KeypadExtendedStatusRequest", 17>>, <<"KeypadTestModeOnRequest", 19>>,
     <<"KeypadTestModeOffRequest", 94>>, <<"KeypadRemoveComponentMenuRequest", 68>>,
     <<"KeypadHomeRequest", 83>>, <<"KeypadPanicRequest", 84>>,
     <<"KeypadAwayRequest", 86>>, <<"KeypadOffRequest", 92>>,
     <<"KeypadEnterMenuRequest", 97>>, <<"KeypadExitMenuRequest", 100>>,
     <<"KeypadChangePinMenuRequest", 113>>, <<"KeypadChangePinConfirmMenuRequest", 114>>,
     <<"KeypadAddComponentMenuRequest", 116>>,
     <<"KeypadRemoveComponentSelectMenuRequest", 118>>,
     <<"KeypadAddComponentLastTypeMenuRequest", 119>> >>

AbstractKeypadModifyComponentMenuRequest_subclasses ==
  << <<"KeypadRemoveComponentConfirmMenuRequest", 103>>,
     <<"KeypadAddEntrySensorMenuRequest", 105>>,
     <<"KeypadAddMotionSensorMenuRequest", 106>>,
     <<"KeypadAddPanicButtonMenuRequest", 107>>,
     <<"KeypadAddKeychainRemoteMenuRequest", 109>>,
     <<"KeypadAddGlassbreakSensorMenuRequest", 110>>,
     <<"KeypadAddSmokeDetectorMenuRequest", 110>>,
     <<"KeypadAddCoDetectorMenuRequest", 120>>,
     <<"KeypadAddFreezeSensorMenuRequest", 121>>,
     <<"KeypadAddWaterSensorMenuRequest", 122>> >>

BaseStationKeypadExtendedStatusMessage_subclasses ==
  << <<"BaseStationKeypadExtendedStatusResponse", 17>>,
     <<"BaseStationKeypadExtendedStatusUpdate", 40>>,
     <<"BaseStationKeypadExtendedStatusRemoteUpdate", 20>> >>

AbstractBaseStationKeypadRemoveComponentScrollMenuResponse_subclasses ==
  << <<"BaseStationKeypadRemoveEntrySensorScrollMenuResponse", 71>>,
     <<"BaseStationKeypadRemoveMotionSensorScrollMenuResponse", 72>>,
     <<"BaseStationKeypadRemovePanicButtonScrollMenuResponse", 73>>,
     <<"BaseStationKeypadRemoveKeypadScrollMenuResponse", 74>>,
     <<"BaseStationKeypadRemoveKeychainRemoteScrollMenuResponse", 75>>,
     <<"BaseStationKeypadRemoveGlassbreakSensorScrollMenuResponse", 76>>,
     <<"BaseStationKeypadRemoveSmokeDetectorScrollMenuResponse", 77>>,
     <<"BaseStationKeypadRemoveCoDetectorScrollMenuResponse", 78>>,
     <<"BaseStationKeypadRemoveFreezeSensorScrollMenuResponse", 79>>,
     <<"BaseStationKeypadRemoveWaterSensorScrollMenuResponse", 80>> >>

\* the event types of BaseStationKeypadSensorErrorUpdate for n = 0, 1, 2, 3
SensorErrorEventType == <<50, 53, 54, 55>>

SensorMessage_subclasses ==
  << <<"KeychainRemoteMessage", OriginType.KEYCHAIN_REMOTE>>,
     <<"MotionSensorMessage", OriginType.MOTION_SENSOR>>,
     <<"EntrySensorMessage", OriginType.ENTRY_SENSOR>> >>

\* KeychainRemoteMessage.EventType, MotionSensorMessage.EventType,
\* EntrySensorMessage.EventType
SensorEventTypes ==
  [KeychainRemoteMessage |-> {1, 2, 3}, MotionSensorMessage |-> {0, 2},
   EntrySensorMessage |-> {1, 2}]

Names(subclasses) == { subclasses[i][1] : i \in DOMAIN subclasses }

\* the class attribute c.event_type (c.origin_type for SensorMessage_subclasses)
Attr(subclasses, cls) ==
  subclasses[CHOOSE i \in DOMAIN subclasses : subclasses[i][1] = cls][2]

\* "for c in cls.__subclasses__(): if msg.event_type == c.event_type: return c":
\* the first subclass with that attribute, <<>> if the loop ends
First(subclasses, attr) ==
  LET hits == { i \in DOMAIN subclasses : subclasses[i][2] = attr }
  IN IF hits = {} THEN <<>>
     ELSE <<subclasses[CHOOSE i \in hits : \A j \in hits : i <= j][1]>>

\* ------------------------------------------------------- message objects
Msg(sn, cls, args) == [sn |-> sn, cls |-> cls, args |-> args]

KeypadClasses ==
  {"KeypadRemoveComponentScrollMenuRequest", "KeypadPrefixRequest",
   "KeypadAddComponentTypeMenuRequest"}
    \cup Names(KeypadPinMessage_subclasses)
    \cup Names(AbstractKeypadSimpleRequest_subclasses)
    \cup Names(AbstractKeypadModifyComponentMenuRequest_subclasses)

SensorClasses == Names(SensorMessage_subclasses)

ExtendedStatusClasses == Names(BaseStationKeypadExtendedStatusMessage_subclasses)

RemoveScrollResponseClasses ==
  Names(AbstractBaseStationKeypadRemoveComponentScrollMenuResponse_subclasses)

BaseStationClasses ==
  ExtendedStatusClasses \cup RemoveScrollResponseClasses
    \cup {"BaseStationKeypadSensorErrorUpdate"}

\* the leaf classes of the model; "Message" is the generic class
LeafClasses == KeypadClasses \cup SensorClasses \cup BaseStationClasses

\* self.sequence
seq_of(m) == m.args[1]

\* self.plc
plc(m) ==
  CASE m.cls = "Message" -> m.args[1]
    [] m.cls \in {"KeypadRemoveComponentScrollMenuRequest",
                  "KeypadAddComponentTypeMenuRequest"} -> 51
    [] m.cls \in Names(AbstractKeypadSimpleRequest_subclasses) -> 34
    [] m.cls \in SensorClasses -> 17
    [] OTHER -> 102

\* self.event_type
event_type(m) ==
  CASE m.cls = "KeypadRemoveComponentScrollMenuRequest" -> 69
    [] m.cls = "KeypadPrefixRequest" -> 99
    [] m.cls = "KeypadAddComponentTypeMenuRequest" -> 117
    [] m.cls \in Names(KeypadPinMessage_subclasses) ->
         Attr(KeypadPinMessage_subclasses, m.cls)
    [] m.cls \in Names(AbstractKeypadSimpleRequest_subclasses) ->
         Attr(AbstractKeypadSimpleRequest_subclasses, m.cls)
    [] m.cls \in Names(AbstractKeypadModifyComponentMenuRequest_subclasses) ->
         Attr(AbstractKeypadModifyComponentMenuRequest_subclasses, m.cls)
    [] m.cls \in SensorClasses -> m.args[2]
    [] m.cls \in ExtendedStatusClasses ->
         Attr(BaseStationKeypadExtendedStatusMessage_subclasses, m.cls)
    [] m.cls \in RemoveScrollResponseClasses ->
         Attr(AbstractBaseStationKeypadRemoveComponentScrollMenuResponse_subclasses, m.cls)
    [] m.cls = "BaseStationKeypadSensorErrorUpdate" -> At(SensorErrorEventType, m.args[3])

\* self.msg_type of a base station message: the Response or the Update trait
msg_type(m) ==
  IF m.cls \in RemoveScrollResponseClasses \cup {"BaseStationKeypadExtendedStatusResponse"}
  THEN MessageType.RESPONSE ELSE MessageType.UPDATE

\* self.info_type of a base station message: the Status or the Menu trait
info_type(m) ==
  IF m.cls \in RemoveScrollResponseClasses THEN InfoType.MENU ELSE InfoType.STATUS

\* the payload_body property
payload_body(m) ==
  CASE m.cls \in {"KeypadRemoveComponentScrollMenuRequest",
                  "KeypadAddComponentTypeMenuRequest"} -> <<m.args[2]>>
    [] m.cls \in Names(KeypadPinMessage_subclasses) ->
         LET pin == m.args[2]
         IN <<At(pin, 1) * 16 + At(pin, 0), At(pin, 3) * 16 + At(pin, 2), 15, 240>>
    [] m.cls \in Names(AbstractKeypadSimpleRequest_subclasses) -> <<>>
    [] m.cls = "KeypadPrefixRequest" -> <<255, 255, 255, 255>>
    [] m.cls \in Names(AbstractKeypadModifyComponentMenuRequest_subclasses) ->
         IF Len(m.args[2]) = 5 THEN pack_ASCII_4B5C(m.args[2], 0, 0)
                               ELSE pack_ASCII_4B5C(m.args[2], 1, 1)
    [] m.cls \in ExtendedStatusClasses ->
         LET flags == m.args[3]
             armed == m.args[4]
             ess == m.args[5]
             tl == m.args[6]
         IN <<flags * 16 + armed, ess, tl \div 16, (tl % 16) * 16 + 12>>
    [] m.cls \in RemoveScrollResponseClasses ->
         pack_ASCII_4B5C(m.args[2], m.args[3], m.args[4])
    [] m.cls = "BaseStationKeypadSensorErrorUpdate" -> pack_ASCII_4B5C(m.args[4], 0, 0)

\* the footer_body property of the Status and of the Menu trait
footer_body(m) ==
  IF info_type(m) = InfoType.MENU THEN <<255, 255, 255, 255, 255>>
  ELSE pack_HEX_5B6C(m.args[2])

\* the payload property
payload(m) ==
  CASE m.cls = "Message" -> m.args[2]
    [] m.cls \in KeypadClasses ->
         <<OriginType.KEYPAD, seq_of(m) * 16 + 4>> \o payload_body(m) \o <<event_type(m)>>
    [] m.cls \in SensorClasses ->
         <<seq_of(m) * 16 + Attr(SensorMessage_subclasses, m.cls), event_type(m)>>
    [] m.cls \in BaseStationClasses ->
         <<OriginType.BASE_STATION, msg_type(m)>> \o payload_body(m) \o <<event_type(m)>>

\* the footer property
footer(m) ==
  CASE m.cls = "Message" -> m.args[3]
    [] m.cls \in BaseStationClasses ->
         footer_body(m) \o <<seq_of(m) * 16 + info_type(m)>>
    [] OTHER -> <<>>

\* Message.checksum
checksum(m) == sum(payload(m)) % 256

\* Message.__bytes__
__bytes__(m) ==
  VENDOR_CODE \o <<plc(m)>> \o m.sn \o payload(m) \o <<checksum(m)>> \o footer(m)

\* str(n) for the nibble n, as the sequence of its decimal digits
str(n) == IF n < 10 THEN <<n>> ELSE <<1, n - 10>>

\* the __init__ of the class of m with the arguments of m: the checks it makes
\* and the properties it reads
New(m) ==
  IF m.cls \in Names(KeypadPinMessage_subclasses) /\ Len(m.args[2]) # 4
    THEN RaiseExc("ValueError")
  ELSE IF m.cls = "KeypadPrefixRequest" /\ m.args[2] # <<>>
    THEN RaiseExc("NameError")
  ELSE IF m.cls = "EntrySensorMessage" /\ m.args[2] \notin SensorEventTypes[m.cls]
    THEN RaiseExc("ValueError")
  ELSE IF Len(m.sn) # 5 THEN RaiseExc("ValueError")
  ELSE Return(m)

\* bytes(cls(sn, ...))
encode(m) == IF New(m).exc # "None" THEN New(m) ELSE Return(__bytes__(m))

\* ------------------------------------------------------------- factories
\* "try: return c.factory(msg) / except ValueError: pass", then the rest of
\* the loop
OrElse(r, rest) == IF r.exc \in ValueErrors THEN rest ELSE r

Invalid == RaiseExc("InvalidMessageBytesError")

\* the subclass of the table whose event_type is that of the message, built
\* with the given arguments; InvalidMessageBytesError if there is none
BySubclass(subclasses, event, sn, args) ==
  IF First(subclasses, event) = <<>> THEN Invalid
  ELSE New(Msg(sn, First(subclasses, event)[1], args))

KeypadRemoveComponentScrollMenuRequest_factory(msg_plc, sn, sequence_, event, body) ==
  IF msg_plc # 51 THEN Invalid
  ELSE IF event # 69 THEN Invalid
  ELSE IF Len(body) < 1 THEN RaiseExc("IndexError")
  ELSE New(Msg(sn, "KeypadRemoveComponentScrollMenuRequest", <<sequence_, At(body, 0)>>))

\* KeypadPinMessage.factory and the factory of its three subclasses
KeypadPinMessage_factory(msg_plc, sn, sequence_, event, body) ==
  IF msg_plc # 102 THEN Invalid
  ELSE IF Slice(body, 2, 4) # <<15, 240>> THEN Invalid
  ELSE LET pin == str(Bits(At(body, 0), 0, 4)) \o str(Bits(At(body, 0), 4, 4))
                    \o str(Bits(At(body, 1), 0, 4)) \o str(Bits(At(body, 1), 4, 4))
       IN IF Len(pin) # 4 THEN RaiseExc("ValueError")
          ELSE BySubclass(KeypadPinMessage_subclasses, event, sn, <<sequence_, pin>>)

AbstractKeypadSimpleRequest_factory(msg_plc, sn, sequence_, event, body) ==
  IF msg_plc # 34 THEN Invalid
  ELSE IF body # <<>> THEN Invalid
  ELSE BySubclass(AbstractKeypadSimpleRequest_subclasses, event, sn, <<sequence_>>)

\* "{:X}".format(x) for x < 16 and "{:02X}".format(x), as digit values
FormatX(x) == <<x>>

Format02X(x) == <<x \div 16, x % 16>>

\* KeypadPrefixRequest.payload_body_prefix = "F", payload_body_suffix = "FFCFFF"
payload_body_prefix == <<15>>

payload_body_suffix == <<15, 15, 12, 15, 15, 15>>

KeypadPrefixRequest_factory(msg_plc, sn, sequence_, event, body) ==
  IF msg_plc # 102 THEN Invalid
  ELSE IF event # 99 THEN Invalid
  ELSE IF Len(body) < 1 THEN RaiseExc("IndexError")
  ELSE IF FormatX(Bits(At(body, 0), 4, 4)) # payload_body_prefix THEN Invalid
  ELSE IF Len(body) < 2 THEN RaiseExc("IndexError")
  ELSE IF Format02X(At(body, 1)) # payload_body_suffix THEN Invalid
  ELSE LET prefix == Bits(At(body, 0), 0, 4)
       IN IF prefix = 15 THEN New(Msg(sn, "KeypadPrefixRequest", <<sequence_, <<>> >>))
          ELSE IF prefix > 9 THEN Invalid
          ELSE New(Msg(sn, "KeypadPrefixRequest", <<sequence_, <<prefix>> >>))

AbstractKeypadModifyComponentMenuRequest_factory(msg_plc, sn, sequence_, event, body) ==
  IF msg_plc # 102 THEN Invalid
  ELSE LET u == unpack_ASCII_4B5C(body)
       IN IF u.exc # "None" THEN u
          ELSE BySubclass(AbstractKeypadModifyComponentMenuRequest_subclasses, event, sn,
                          <<sequence_, u.out[1]>>)

\* KeypadAddComponentTypeMenuRequest.ComponentType has the values 0..9
KeypadAddComponentTypeMenuRequest_factory(msg_plc, sn, sequence_, event, body) ==
  IF msg_plc # 51 THEN Invalid
  ELSE IF event # 117 THEN Invalid
  ELSE IF Len(body) < 1 THEN RaiseExc("IndexError")
  ELSE IF At(body, 0) \notin 0..9 THEN RaiseExc("ValueError")
  ELSE New(Msg(sn, "KeypadAddComponentTypeMenuRequest", <<sequence_, At(body, 0)>>))

KeypadMessage_factory(msg) ==
  LET p == payload(msg)
  IN IF At(p, 0) \notin OriginTypes THEN RaiseExc("ValueError")
     ELSE IF At(p, 0) # OriginType.KEYPAD THEN Invalid
     ELSE IF Len(p) < 2 THEN RaiseExc("IndexError")
     ELSE IF p[Len(p)] \notin EventType THEN RaiseExc("ValueError")
     ELSE LET sequence_ == Bits(At(p, 1), 4, 4)
              body == Slice(p, 2, Len(p) - 1)
              event == p[Len(p)]
              sn == msg.sn
          IN OrElse(KeypadRemoveComponentScrollMenuRequest_factory(plc(msg), sn, sequence_, event, body),
             OrElse(KeypadPinMessage_factory(plc(msg), sn, sequence_, event, body),
             OrElse(AbstractKeypadSimpleRequest_factory(plc(msg), sn, sequence_, event, body),
             OrElse(KeypadPrefixRequest_factory(plc(msg), sn, sequence_, event, body),
             OrElse(AbstractKeypadModifyComponentMenuRequest_factory(plc(msg), sn, sequence_, event, body),
             OrElse(KeypadAddComponentTypeMenuRequest_factory(plc(msg), sn, sequence_, event, body),
                    RaiseExc("NotImplementedError")))))))

\* SensorMessage.factory and the factory of its three subclasses, which all
\* check the origin type and then the event type
SensorMessage_factory(msg) ==
  LET p == payload(msg)
      origin == Bits(At(p, 0), 0, 4)
      sequence_ == Bits(At(p, 0), 4, 4)
      event == At(p, 1)
      c == First(SensorMessage_subclasses, origin)
  IN IF plc(msg) # 17 THEN Invalid
     ELSE IF origin \notin OriginTypes THEN RaiseExc("ValueError")
     ELSE IF Len(p) < 2 THEN RaiseExc("IndexError")
     ELSE IF c = <<>> THEN RaiseExc("NotImplementedError")
     ELSE IF event \notin SensorEventTypes[c[1]] THEN RaiseExc("NotImplementedError")
     ELSE New(Msg(msg.sn, c[1], <<sequence_, event>>))

ComponentMessage_factory(msg) ==
  OrElse(KeypadMessage_factory(msg),
  OrElse(SensorMessage_factory(msg),
         RaiseExc("ValueError")))

\* BaseStationKeypadExtendedStatusMessage.factory and the factory of its three
\* subclasses; ArmedStatusType has the values 0..4, EntrySensorStatusType the
\* values 0xF0 and 0xF1
BaseStationKeypadExtendedStatusMessage_factory(msg_plc, sn, sequence_, mtype, itype, event, body, fbody) ==
  IF msg_plc # 102 THEN Invalid
  ELSE IF itype # InfoType.STATUS THEN Invalid
  ELSE LET bs_sn == unpack_HEX_5B6C(fbody)
           flags == Bits(At(body, 0), 4, 4)
           armed == Bits(At(body, 0), 0, 4)
           ess == At(body, 1)
           tl == At(body, 2) * 16 + Bits(At(body, 3), 4, 4)
           c == { i \in DOMAIN BaseStationKeypadExtendedStatusMessage_subclasses :
                    LET cls == BaseStationKeypadExtendedStatusMessage_subclasses[i][1]
                    IN /\ mtype = msg_type(Msg(sn, cls, <<>>))
                       /\ event = BaseStationKeypadExtendedStatusMessage_subclasses[i][2] }
       IN IF bs_sn.exc # "None" THEN bs_sn
          ELSE IF armed \notin 0..4 THEN RaiseExc("ValueError")
          ELSE IF ess \notin {240, 241} THEN RaiseExc("ValueError")
          ELSE IF c = {} THEN RaiseExc("NotImplementedError")
          ELSE New(Msg(sn, BaseStationKeypadExtendedStatusMessage_subclasses[CHOOSE i \in c : TRUE][1],
                       <<sequence_, bs_sn.out, flags, armed, ess, tl>>))

AbstractBaseStationKeypadRemoveComponentScrollMenuResponse_factory(msg_plc, sn, sequence_, mtype, itype, event, body, fbody) ==
  IF msg_plc # 102 THEN Invalid
  ELSE IF mtype # MessageType.RESPONSE THEN Invalid
  ELSE IF itype # InfoType.MENU THEN Invalid
  ELSE LET u == unpack_ASCII_4B5C(body)
       IN IF u.exc # "None" THEN u
          ELSE BySubclass(AbstractBaseStationKeypadRemoveComponentScrollMenuResponse_subclasses,
                          event, sn, <<sequence_, u.out[1], u.out[2], u.out[3]>>)

BaseStationKeypadSensorErrorUpdate_factory(msg_plc, sn, sequence_, mtype, itype, event, body, fbody) ==
  IF msg_plc # 102 THEN Invalid
  ELSE IF mtype # MessageType.UPDATE THEN Invalid
  ELSE IF \A n \in 0..3 : At(SensorErrorEventType, n) # event THEN Invalid
  ELSE LET n == CHOOSE n \in 0..3 : At(SensorErrorEventType, n) = event
           u == unpack_ASCII_4B5C(body)
           bs_sn == unpack_HEX_5B6C(fbody)
       IN IF u.exc # "None" THEN u
          ELSE IF bs_sn.exc # "None" THEN bs_sn
          ELSE New(Msg(sn, "BaseStationKeypadSensorErrorUpdate",
                       <<sequence_, bs_sn.out, n, u.out[1]>>))

\* BaseStationKeypadMessage.factory.  Of its subclasses, the three above take
\* the frames with payload length code 0x66; the factory of every other one
\* starts with a check for the payload length code 0x22 or 0x33, and those
\* classes are left out: a frame that would reach them is "NotModelled".
BaseStationKeypadMessage_factory(msg) ==
  LET p == payload(msg)
      f == footer(msg)
  IN IF At(p, 0) \notin OriginTypes THEN RaiseExc("ValueError")
     ELSE IF At(p, 0) # OriginType.BASE_STATION THEN Invalid
     ELSE IF Len(p) < 2 THEN RaiseExc("IndexError")
     ELSE IF At(p, 1) \notin {MessageType.RESPONSE, MessageType.UPDATE}
       THEN RaiseExc("ValueError")
     ELSE IF p[Len(p)] \notin EventType THEN RaiseExc("ValueError")
     ELSE IF Len(f) < 6 THEN RaiseExc("IndexError")
     ELSE IF Bits(At(f, 5), 0, 4) \notin {InfoType.STATUS, InfoType.MENU}
       THEN RaiseExc("ValueError")
     ELSE IF plc(msg) # 102 THEN RaiseExc("NotModelled")
     ELSE LET mtype == At(p, 1)
              body == Slice(p, 2, Len(p) - 1)
              event == p[Len(p)]
              sequence_ == Bits(At(f, 5), 4, 4)
              itype == Bits(At(f, 5), 0, 4)
              fbody == Slice(f, 0, Len(f) - 1)
              sn == msg.sn
          IN OrElse(BaseStationKeypadExtendedStatusMessage_factory(plc(msg), sn, sequence_, mtype, itype, event, body, fbody),
             OrElse(AbstractBaseStationKeypadRemoveComponentScrollMenuResponse_factory(plc(msg), sn, sequence_, mtype, itype, event, body, fbody),
             OrElse(BaseStationKeypadSensorErrorUpdate_factory(plc(msg), sn, sequence_, mtype, itype, event, body, fbody),
                    RaiseExc("NotImplementedError"))))

Min2(a, b) == IF a < b THEN a ELSE b

\* Message.factory(b): the subclass loop, then the checksum of the frame against
\* the checksum property of the object the loop ended with
Message_factory(b) ==
  IF Len(b) < 9 THEN Invalid
  ELSE IF Slice(b, 0, 2) # VENDOR_CODE THEN Invalid
  ELSE IF At(b, 2) \notin DOMAIN PAYLOAD_LENGTHS THEN Invalid
  ELSE IF \E i \in 3..7 : At(b, i) >= 128 THEN RaiseExc("UnicodeDecodeError")
  ELSE LET pl == PAYLOAD_LENGTHS[At(b, 2)]
           generic == Msg(Slice(b, 3, 8), "Message",
                          <<At(b, 2), Slice(b, 8, Min2(8 + pl, Len(b))),
                            Slice(b, 8 + pl + 1, Len(b))>>)
           c == ComponentMessage_factory(generic)
           k == BaseStationKeypadMessage_factory(generic)
           r == IF c.exc \notin ValueErrors THEN c
                ELSE IF k.exc \notin ValueErrors THEN k
                ELSE Return(generic)
       IN IF r.exc # "None" THEN r
          ELSE IF Len(b) <= 8 + pl THEN RaiseExc("IndexError")
          ELSE IF At(b, 8 + pl) # checksum(r.out) THEN RaiseExc("ValueError")
          ELSE r

\* --------------------------------------------------- the messages encoded
\* the serial number "167JC" of the sender, and the sequence numbers
Serial == <<49, 54, 55, 74, 67>>

SeqNums == {0, 3}

\* component serial numbers "1A2B3" and "1A2", a base station serial "12345A"
ComponentSerials == {<<49, 65, 50, 66, 51>>, <<49, 65, 50>>}

BaseStationSerial == <<1, 2, 3, 4, 5, 10>>

CodecPins == {<<1, 2, 3, 4>>, <<9, 0, 9, 9>>}

\* the argument tuples after sn and sequence, by class
ArgChoices(cls) ==
  CASE cls = "KeypadRemoveComponentScrollMenuRequest" -> {<<0>>, <<2>>}
    [] cls = "KeypadAddComponentTypeMenuRequest" -> {<<0>>, <<3>>, <<9>>}
    [] cls = "KeypadPrefixRequest" -> {<< <<>> >>, << <<5>> >>}
    [] cls \in Names(KeypadPinMessage_subclasses) -> { <<pin>> : pin \in CodecPins }
    [] cls \in Names(AbstractKeypadSimpleRequest_subclasses) -> {<<>>}
    [] cls \in Names(AbstractKeypadModifyComponentMenuRequest_subclasses) ->
         { <<c_sn>> : c_sn \in ComponentSerials }
    [] cls \in SensorClasses -> { <<e>> : e \in SensorEventTypes[cls] }
    [] cls \in ExtendedStatusClasses ->
         {<<BaseStationSerial, 0, 0, 240, 0>>, <<BaseStationSerial, 9, 3, 241, 30>>}
    [] cls \in RemoveScrollResponseClasses ->
         {<<<<49, 65, 50, 66, 51>>, 0, 1>>}
    [] cls = "BaseStationKeypadSensorErrorUpdate" ->
         {<<BaseStationSerial, 0, <<49, 65, 50>> >>, <<BaseStationSerial, 3, <<49, 65, 50, 66, 51>> >>}

\* the leaf messages the codec is run on
Values ==
  UNION { { Msg(Serial, cls, <<q>> \o a) : q \in SeqNums, a \in ArgChoices(cls) } :
          cls \in LeafClasses }

\* the bytes a forged frame gets in place of a payload byte
ForgedBytes == {0, 1, 5, 127}

Pending == [exc |-> "pending", out |-> <<>>]

\* the payload of a frame, as Message.factory slices it
ReceivedPayload(b) == Slice(b, 8, 8 + PAYLOAD_LENGTHS[At(b, 2)])

\* ---------------------------------------------------------- codec actions
\* a BaseStation object that takes no step
StationIdle ==
  UNCHANGED <<_armed, _time_left, _time_left_timer, timers, _siren_timer, sequence,
              _master_pin, _duress_pin, _pins, _components, recv_alive, siren_on,
              entry_cd, cd, last>>

\* the codec touches neither a BaseStation object nor the radio
DeviceIdle == StationIdle /\ UNCHANGED radio

\* bytes(v) for the message v
Encode ==
  /\ stage = "new"
  /\ frame' = encode(value).out
  /\ stage' = IF encode(value).exc = "None" THEN "encoded" ELSE encode(value).exc
  /\ UNCHANGED <<value, parsed>>
  /\ DeviceIdle

\* one bit of the encoded frame is flipped on the way
FlipFrameBit ==
  \E i \in 0..(Len(frame) - 1), k \in 0..7 :
    /\ stage = "encoded"
    /\ parsed = Pending
    /\ frame' = [frame EXCEPT ![i + 1] = FlipBit(@, k)]
    /\ stage' = "flipped"
    /\ UNCHANGED <<value, parsed>>
    /\ DeviceIdle

\* a frame with one payload byte of the encoded frame replaced and the checksum
\* byte set to the sum of the payload bytes
ForgeFrame ==
  \E i \in 8..14, x \in ForgedBytes :
    /\ stage = "encoded"
    /\ parsed = Pending
    /\ i < 8 + PAYLOAD_LENGTHS[At(frame, 2)]
    /\ At(frame, i) # x
    /\ LET f == [frame EXCEPT ![i + 1] = x]
       IN frame' = [f EXCEPT ![8 + PAYLOAD_LENGTHS[At(frame, 2)] + 1] =
                               sum(ReceivedPayload(f)) % 256]
    /\ stage' = "forged"
    /\ UNCHANGED <<value, parsed>>
    /\ DeviceIdle

\* the first n bytes of the encoded frame arrive
TruncateFrame ==
  \E n \in 0..(Len(frame) - 1) :
    /\ stage = "encoded"
    /\ parsed = Pending
    /\ frame' = Slice(frame, 0, n)
    /\ stage' = "truncated"
    /\ UNCHANGED <<value, parsed>>
    /\ DeviceIdle

\* Message.factory(frame)
Parse ==
  /\ stage \in {"encoded", "flipped", "forged", "truncated"}
  /\ parsed = Pending
  /\ parsed' = Message_factory(frame)
  /\ UNCHANGED <<value, frame, stage>>
  /\ DeviceIdle

\* no BaseStation object exists: its fields are at rest, and the message to
\* encode is drawn from Values
\* the fields of a BaseStation object that takes no step
DeviceAtRest ==
  /\ _armed = ArmedState.OFF
  /\ _time_left = 0
  /\ _time_left_timer = [st |-> "unset", stale |-> FALSE]
  /\ timers = NoTimers
  /\ _siren_timer = None
  /\ sequence = 0
  /\ _master_pin = MasterPin
  /\ _duress_pin = DuressPin
  /\ _pins = <<>>
  /\ _components = <<>>
  /\ recv_alive = TRUE
  /\ siren_on = FALSE
  /\ entry_cd = FALSE
  /\ cd = NoCd
  /\ last = [exc |-> FALSE, sent |-> <<>>, calls |-> <<>>, path |-> {},
             branch |-> "none", tl0 |-> -1,
             msg |-> [sn |-> None, cls |-> "none", pin |-> None, event_type |-> 0],
             stale |-> FALSE, op |-> "init"]

\* no transceiver and no sending device exist
RadioAtRest ==
  /\ w = <<>>
  /\ line = [level |-> 0, tick |-> 0, missed |-> 0]
  /\ rx = None
  /\ pipe = <<>>
  /\ log = <<>>
  /\ dev = None

CodecInit ==
  /\ DeviceAtRest
  /\ RadioAtRest
  /\ value \in Values
  /\ frame = <<>>
  /\ stage = "new"
  /\ parsed = Pending

CodecNext ==
  \/ Encode
  \/ FlipFrameBit
  \/ ForgeFrame
  \/ TruncateFrame
  \/ Parse

CodecSpec == CodecInit /\ [][CodecNext]_vars

\* ------------------------------------------------- serial number packing
\* the characters "0", "A", "n" and "o" (0x30, 0x41, 0x6E, 0x6F) of a serial
SerialChars == {48, 65, 110, 111}

\* the number of characters SerialNumberFormat.pack(ASCII_4B5C) packs
SerialLen == 5

\* the serials of at most SerialLen characters
SerialStrings == UNION { [1..n -> SerialChars] : n \in 0..SerialLen }

\* SerialNumberFormat.pack(ASCII_4B5C, s, hb, lb) for value = <<s, hb, lb>>
Pack ==
  /\ stage = "new"
  /\ frame' = pack_ASCII_4B5C(value[1], value[2], value[3])
  /\ stage' = "packed"
  /\ UNCHANGED <<value, parsed>>
  /\ DeviceIdle

\* SerialNumberFormat.unpack(ASCII_4B5C, buffer) of the packed bytes
Unpack ==
  /\ stage = "packed"
  /\ parsed' = unpack_ASCII_4B5C(frame)
  /\ stage' = "unpacked"
  /\ UNCHANGED <<value, frame>>
  /\ DeviceIdle

SerialInit ==
  /\ DeviceAtRest
  /\ RadioAtRest
  /\ value \in SerialStrings \X {0, 1} \X {0, 1}
  /\ frame = <<>>
  /\ stage = "new"
  /\ parsed = Pending

SerialNext == Pack \/ Unpack

SerialSpec == SerialInit /\ [][SerialNext]_vars


\* =================================================== simplisafe/pigpio.py
\* A pulse is <<level, us>>: the line is driven to the level and held for us
\* microseconds; pigpio.pulse(tx, 0, us) drives it high, pigpio.pulse(0, tx, us)
\* low, and the script command "w tx level mics us" does the same.  A pulse
\* <<us>> leaves the line as it is for us microseconds (time.sleep).
\* n times the pulse p followed by the pulse q
Pairs(n, p, q) == [k \in 1..(2 * n) |-> IF k % 2 = 1 THEN p ELSE q]

\* the number of SYNC periods send_wave and send_script write for a message
syncs(cls) ==
  IF cls \in BaseStationClasses THEN 150
  ELSE IF cls \in KeypadClasses THEN 40
  ELSE 20

\* "for msg_byte in bytes(msg): for i in range(8)": one pulse per bit, least
\* significant bit first, 1000 us for a 1 and 500 us for a 0, the level
\* (next_bit) starting at 0 and toggled after every pulse
DataPulses(b) ==
  [k \in 1..(8 * Len(b)) |->
     <<(k - 1) % 2,
       IF Bits(At(b, (k - 1) \div 8), (k - 1) % 8, 1) = 1 THEN 1000 ELSE 500>>]

\* the durations of the four pulses that follow the data of a base station
\* message
ds == <<1000, 1000, 500, 500>>

\* send_wave for the bytes b of a message of class cls: the list w of pulses
\* given to wave_add_generic.  The last loop has "next_bit ^= next_bit",
\* which sets next_bit to 0.
wave(b, cls) ==
  LET bs == cls \in BaseStationClasses
      nb0 == (8 * Len(b)) % 2
      trailer == IF bs THEN [k \in 1..4 |-> <<(nb0 + k - 1) % 2, ds[k]>>] ELSE <<>>
      tail == <<<<nb0, 1000>>, <<0, 1000>>, <<0, 1000>>, <<0, 1000>>>>
      wd == <<<<0, 2000>>, <<1, 2000>>>> \o DataPulses(b) \o trailer \o tail
      ws == Pairs(18, <<0, 1000>>, <<1, 1000>>)
      w0 == Pairs(syncs(cls), <<0, 1000>>, <<1, 1000>>)
  IN IF bs THEN w0 \o wd \o ws \o wd \o ws \o wd ELSE w0 \o wd \o wd

\* Transceiver.send_wave(msg)
send_wave(m) == wave(__bytes__(m), m.cls)

\* send_script for the bytes b of a message of class cls: the pulses the
\* stored script writes.  A loop "ld v0 n tag t ... dcr v0 jp t" runs its
\* body n + extra times, extra being 0 or 1 as pigpiod counts.
script(b, cls, extra) ==
  LET bs == cls \in BaseStationClasses
      nb0 == (8 * Len(b)) % 2
      trailer == IF bs THEN [k \in 1..4 |-> <<nb0, ds[k]>>] ELSE <<>>
      nb1 == IF bs THEN 1 - nb0 ELSE nb0
      tail == [k \in 1..4 |-> <<(nb1 + k - 1) % 2, 1000>>]
      sd == <<<<0, 2000>>, <<1, 2000>>>> \o DataPulses(b) \o trailer \o tail
      s0 == Pairs(syncs(cls) + extra, <<0, 1000>>, <<1, 1000>>)
      tag1 == Pairs(18 + extra, <<nb1, 1000>>, <<nb1, 1000>>)
      tag2 == Pairs(18 + extra, <<1 - nb1, 1000>>, <<1 - nb1, 1000>>)
  IN (IF bs THEN s0 \o sd \o tag1 \o sd \o tag2 \o sd ELSE s0 \o sd \o sd)
       \o <<<<0, 0>>>>

\* Transceiver.send_script(msg)
send_script(m, extra) == script(__bytes__(m), m.cls, extra)

\* Transceiver.send(msg) in the default mode "script": a sensor message is
\* sent three times, each time followed by sleep(2)
send(m, extra) ==
  IF m.cls \in SensorClasses
    THEN send_script(m, extra) \o <<<<2000000>>>>
           \o send_script(m, extra) \o <<<<2000000>>>>
           \o send_script(m, extra) \o <<<<2000000>>>>
  ELSE send_script(m, extra)

\* the fields _listen sets before it registers the callback
Listening ==
  [_rx_done |-> FALSE, _rx_buffer |-> <<>>, _rx_t |-> <<>>,
   _rx_preamble_low |-> FALSE, _rx_preamble_high |-> FALSE, _rx_sync_buffer |-> <<>>]

\* s[-4:]
Last4(s) == IF Len(s) <= 4 THEN s ELSE SubSeq(s, Len(s) - 3, Len(s))

\* the symbol of a pulse width, dt in microseconds
Symbol(dt) ==
  IF dt > 1100 THEN "X"
  ELSE IF dt >= 900 THEN "1"
  ELSE IF dt > 600 THEN "X"
  ELSE "0"

\* _listen_cbf without the test of the last four symbols: every 2 ms pulse
\* is taken for a delimiter of the preamble
_listen_cbf_any_delimiter(r, level, tick) ==
  IF r._rx_done THEN r
  ELSE IF r._rx_t = <<>> THEN [r EXCEPT !._rx_t = <<tick>>]
  ELSE LET dt == IF r._rx_t[1] > tick THEN tick * (2 ^ 32) - r._rx_t[1]
                 ELSE tick - r._rx_t[1]
           r1 == [r EXCEPT !._rx_t = <<tick>>]
       IN IF dt > 2100
            THEN IF r._rx_preamble_high THEN [r1 EXCEPT !._rx_done = TRUE] ELSE r1
          ELSE IF dt > 1900
            THEN IF level = 1
                   THEN [r1 EXCEPT !._rx_preamble_low = TRUE,
                                   !._rx_preamble_high = FALSE]
                 ELSE IF r._rx_preamble_low
                   THEN [r1 EXCEPT !._rx_buffer = <<>>,
                                   !._rx_preamble_high = TRUE]
                 ELSE r1
          ELSE [r1 EXCEPT !._rx_buffer = IF r._rx_preamble_high
                                           THEN @ \o <<Symbol(dt)>> ELSE <<>>,
                          !._rx_sync_buffer = Last4(@ \o <<Symbol(dt)>>)]

\* Transceiver._listen_cbf(gpio, level, tick) on the fields r; _rx_t is <<>>
\* for None and <<tick>> otherwise, and the times are in microseconds
_listen_cbf(r, level, tick) ==
  IF r._rx_done THEN r
  ELSE IF r._rx_t = <<>> THEN [r EXCEPT !._rx_t = <<tick>>]
  ELSE LET dt == IF r._rx_t[1] > tick THEN tick * (2 ^ 32) - r._rx_t[1]
                 ELSE tick - r._rx_t[1]
           r1 == [r EXCEPT !._rx_t = <<tick>>]
       IN IF dt > 2100
            THEN IF r._rx_preamble_high THEN [r1 EXCEPT !._rx_done = TRUE] ELSE r1
          ELSE IF dt > 1900
            THEN IF r._rx_sync_buffer = <<"1", "1", "1", "1">>
                   THEN IF level = 1
                          THEN [r1 EXCEPT !._rx_preamble_low = TRUE,
                                          !._rx_preamble_high = FALSE]
                        ELSE IF r._rx_preamble_low
                          THEN [r1 EXCEPT !._rx_buffer = <<>>,
                                          !._rx_preamble_high = TRUE]
                        ELSE r1
                 ELSE [r1 EXCEPT !._rx_preamble_low = FALSE]
          ELSE [r1 EXCEPT !._rx_buffer = IF r._rx_preamble_high
                                           THEN @ \o <<Symbol(dt)>> ELSE <<>>,
                          !._rx_sync_buffer = Last4(@ \o <<Symbol(dt)>>)]

\* DeviceType(n) of simplisafe/__init__.py exists for 0..10; 0 is BASE_STATION
DeviceTypes == 0..10

\* raw_hex of decode: one nibble per four symbols, the first symbol the least
\* significant bit, a partial nibble filled with zeros
raw_hex(bits) ==
  [i \in 1..((Len(bits) + 3) \div 4) |->
     LET bit(j) == IF 4 * (i - 1) + j <= Len(bits) /\ bits[4 * (i - 1) + j] = "1"
                     THEN 1 ELSE 0
     IN bit(1) + 2 * bit(2) + 4 * bit(3) + 8 * bit(4)]

\* str.find: the first index at which sub occurs in s, -1 if there is none
find(s, sub) ==
  LET hits == { i \in 0..(Len(s) - Len(sub)) : Slice(s, i, i + Len(sub)) = sub }
  IN IF hits = {} THEN -1 ELSE CHOOSE i \in hits : \A j \in hits : i <= j

\* s[:n] for an n that may be negative
Upto(s, n) == IF n < 0 THEN Slice(s, 0, Len(s) + n) ELSE Slice(s, 0, n)

\* decode without the test for X symbols: an X counts as a 0 bit
decode_through_X(bits) ==
  LET h == raw_hex(bits)
  IN IF Len(h) <= 16 THEN RaiseExc("DecodeError")
     ELSE IF At(h, 16) \notin DeviceTypes THEN RaiseExc("DecodeError")
     ELSE LET unswapped == IF At(h, 16) = 0 THEN Upto(h, -2)
                           ELSE Upto(h, find(h, <<15>> \o Slice(h, 0, 4)))
          IN IF Len(unswapped) % 2 = 1 THEN RaiseExc("DecodeError")
             ELSE Return([i \in 1..(Len(unswapped) \div 2) |->
                            unswapped[2 * i] * 16 + unswapped[2 * i - 1]])

\* Transceiver.decode(bits)
decode(bits) ==
  IF \E i \in DOMAIN bits : bits[i] = "X" THEN RaiseExc("DecodeError")
  ELSE LET h == raw_hex(bits)
       IN IF Len(h) <= 16 THEN RaiseExc("DecodeError")
          ELSE IF At(h, 16) \notin DeviceTypes THEN RaiseExc("DecodeError")
          ELSE LET unswapped == IF At(h, 16) = 0 THEN Upto(h, -2)
                                ELSE Upto(h, find(h, <<15>> \o Slice(h, 0, 4)))
               IN IF Len(unswapped) % 2 = 1 THEN RaiseExc("DecodeError")
                  ELSE Return([i \in 1..(Len(unswapped) \div 2) |->
                                 unswapped[2 * i] * 16 + unswapped[2 * i - 1]])


\* ------------------------------------------------------ the radio actions
\* the messages put on the air: a keypad request, a sensor message and a base
\* station update
ModemValues ==
  { Msg(Serial, "KeypadHomeRequest", <<3>>),
    Msg(Serial, "EntrySensorMessage", <<1, EntrySensorEventType.OPEN>>),
    Msg(Serial, "BaseStationKeypadSensorErrorUpdate",
        <<0, BaseStationSerial, 0, <<49, 65, 50>> >>) }

\* the bits of the bytes b as symbols, least significant bit first
BitString(b) ==
  [k \in 1..(8 * Len(b)) |->
     IF Bits(At(b, (k - 1) \div 8), (k - 1) % 8, 1) = 1 THEN "1" ELSE "0"]

\* the index in w of the first data pulse: the one after the two 2000 us
\* pulses of the first preamble
FirstData(pulses) ==
  2 + CHOOSE k \in DOMAIN pulses :
        /\ Len(pulses[k]) = 2 /\ pulses[k][2] = 2000
        /\ \A j \in 1..(k - 1) : Len(pulses[j]) = 2 => pulses[j][2] # 2000

RadioIdle == StationIdle /\ UNCHANGED parsed

\* send_wave(value) is called
SendWave ==
  /\ stage = "new"
  /\ frame' = __bytes__(value)
  /\ w' = send_wave(value)
  /\ dev' = <<__bytes__(value)>>
  /\ stage' = "wave"
  /\ UNCHANGED <<value, line, rx, pipe, log>>
  /\ RadioIdle

\* send(value) is called
Send ==
  \E extra \in {0, 1} :
    /\ stage = "new"
    /\ frame' = __bytes__(value)
    /\ w' = send(value, extra)
    /\ dev' = <<__bytes__(value)>>
    /\ stage' = "script"
    /\ UNCHANGED <<value, line, rx, pipe, log>>
    /\ RadioIdle

\* one data pulse of the transmission reaches the receiver with a width that
\* is neither that of a 0 nor that of a 1
Distort ==
  /\ stage = "script"
  /\ line.tick = 0
  /\ w' = [w EXCEPT ![FirstData(w) + 7] = <<@[1], BadWidth>>]
  /\ stage' = "script-X"
  /\ UNCHANGED <<value, frame, line, rx, pipe, log, dev>>
  /\ RadioIdle

\* the transmission breaks off after n data pulses, and the line goes to the
\* other level and stays there
CutShort ==
  \E n \in {0, 4} :
    /\ stage = "script"
    /\ line.tick = 0
    /\ LET k == FirstData(w) + n - 1
       IN w' = SubSeq(w, 1, k) \o <<<<1 - w[k][1], IdleGap>>>>
    /\ stage' = "script-short"
    /\ UNCHANGED <<value, frame, line, rx, pipe, log, dev>>
    /\ RadioIdle

\* after a silence, send(m) is called for a further message
SendNext ==
  \E m \in ModemValues :
    /\ stage \notin {"new", "wave"}
    /\ w = <<>>
    /\ Len(dev) < MaxSends
    /\ frame' = __bytes__(m)
    /\ w' = <<<<IdleGap>>>> \o send(m, 0)
    /\ dev' = Append(dev, __bytes__(m))
    /\ UNCHANGED <<value, stage, line, rx, pipe, log>>
    /\ RadioIdle

\* pigpiod plays the next pulse; if that changes the level of the line, it
\* calls the callback _listen_cbf with the new level and the tick.  While
\* _rx_done is set and the listener thread has not yet taken the buffer, the
\* callback returns at once.
PlayPulse ==
  /\ w # <<>>
  /\ LET p == Head(w)
         level == IF Len(p) = 1 THEN line.level ELSE p[1]
         us == p[Len(p)]
         edge == level # line.level
     IN /\ edge /\ rx._rx_done => line.missed < MaxMissed
        /\ rx' = IF edge THEN _listen_cbf(rx, level, line.tick) ELSE rx
        /\ line' = [level |-> level, tick |-> line.tick + us,
                    missed |-> IF edge /\ rx._rx_done THEN line.missed + 1 ELSE line.missed]
  /\ w' = Tail(w)
  /\ UNCHANGED <<value, frame, stage, pipe, log, dev>>
  /\ RadioIdle

\* Transceiver._listen, once around its loop: _rx_done is seen, the callback
\* is cancelled, the buffer is decoded and written to the pipe, or a
\* DecodeError is printed, and the fields are set for the next frame
_listen ==
  /\ rx._rx_done
  /\ LET decoded == decode(rx._rx_buffer)
     IN /\ pipe' = IF decoded.exc = "None" THEN pipe \o decoded.out ELSE pipe
        /\ log' = Append(log, <<rx._rx_buffer, decoded>>)
  /\ rx' = Listening
  /\ line' = [line EXCEPT !.missed = 0]
  /\ UNCHANGED <<value, frame, stage, w, dev>>
  /\ RadioIdle

\* a Transceiver with a receiver and a transmitter pin was constructed, its
\* listener thread waits for the first edge, and the message to send is drawn
\* from ModemValues
ModemInit ==
  /\ DeviceAtRest
  /\ value \in ModemValues
  /\ frame = <<>>
  /\ stage = "new"
  /\ parsed = Pending
  /\ w = <<>>
  /\ line = [level |-> 0, tick |-> 0, missed |-> 0]
  /\ rx = Listening
  /\ pipe = <<>>
  /\ log = <<>>
  /\ dev = <<>>

ModemNext ==
  \/ SendWave
  \/ Send
  \/ Distort
  \/ CutShort
  \/ SendNext
  \/ PlayPulse
  \/ _listen

ModemSpec == ModemInit /\ [][ModemNext]_vars


\* ============================================================= RFUtils.py
\* the module globals recv sets before it registers the callback; t is <<>>
\* for None and <<tick>> otherwise
Receiving ==
  [t |-> <<>>, done |-> FALSE, skip |-> FALSE, encoded |-> <<>>,
   start_flag0 |-> FALSE, start_flag1 |-> FALSE, sync_buffer |-> <<>>]

\* _recv_cbf without the test for a glitch: every edge counts
_recv_cbf_no_glitch(r, level, tick) ==
  IF r.done THEN r
  ELSE IF r.t = <<>> THEN [r EXCEPT !.t = <<tick>>]
  ELSE IF r.skip THEN [r EXCEPT !.skip = FALSE]
  ELSE LET dt == IF r.t[1] > tick THEN tick * (2 ^ 32) - r.t[1] ELSE tick - r.t[1]
           r1 == [r EXCEPT !.t = <<tick>>]
           enc == r.encoded \o <<Symbol(dt)>>
       IN IF dt > 2100
            THEN IF r.start_flag1 THEN [r EXCEPT !.done = TRUE]
                 ELSE [r1 EXCEPT !.start_flag0 = FALSE]
          ELSE IF dt > 1900
            THEN IF r.sync_buffer = <<"1", "1", "1", "1">>
                   THEN IF level = 1
                          THEN [r1 EXCEPT !.start_flag0 = TRUE, !.start_flag1 = FALSE]
                        ELSE IF r.start_flag0
                          THEN [r1 EXCEPT !.encoded = <<>>, !.start_flag1 = TRUE]
                        ELSE r1
                 ELSE [r1 EXCEPT !.start_flag0 = FALSE]
          ELSE [r1 EXCEPT !.encoded = IF r.start_flag1 THEN enc ELSE <<>>,
                          !.sync_buffer = Last4(r.sync_buffer \o enc)]

\* RFUtils._recv_cbf(gpio, level, tick) on the globals r, times in
\* microseconds.  At the end of a transmission the callback calls pi.stop(),
\* after which pigpio calls it no more.
_recv_cbf(r, level, tick) ==
  IF r.done THEN r
  ELSE IF r.t = <<>> THEN [r EXCEPT !.t = <<tick>>]
  ELSE IF r.skip THEN [r EXCEPT !.skip = FALSE]
  ELSE LET dt == IF r.t[1] > tick THEN tick * (2 ^ 32) - r.t[1] ELSE tick - r.t[1]
           r1 == [r EXCEPT !.t = <<tick>>]
           enc == r.encoded \o <<Symbol(dt)>>
       IN IF dt < 400 THEN [r EXCEPT !.skip = TRUE]
          ELSE IF dt > 2100
            THEN IF r.start_flag1 THEN [r EXCEPT !.done = TRUE]
                 ELSE [r1 EXCEPT !.start_flag0 = FALSE]
          ELSE IF dt > 1900
            THEN IF r.sync_buffer = <<"1", "1", "1", "1">>
                   THEN IF level = 1
                          THEN [r1 EXCEPT !.start_flag0 = TRUE, !.start_flag1 = FALSE]
                        ELSE IF r.start_flag0
                          THEN [r1 EXCEPT !.encoded = <<>>, !.start_flag1 = TRUE]
                        ELSE r1
                 ELSE [r1 EXCEPT !.start_flag0 = FALSE]
          ELSE [r1 EXCEPT !.encoded = IF r.start_flag1 THEN enc ELSE <<>>,
                          !.sync_buffer = Last4(r.sync_buffer \o enc)]

\* RFUtils.recv from "while not done" to bytes.fromhex(swapped), for the
\* symbols in encoded: "continue" for a message that is ignored, the
\* ValueError of int('', 16), or the bytes handed to Message.factory
swapped(encoded) ==
  IF Len(encoded) <= 4 THEN RaiseExc("continue")
  ELSE IF \E i \in DOMAIN encoded : encoded[i] = "X" THEN RaiseExc("continue")
  ELSE LET decoded == raw_hex(encoded)
       IN IF Len(decoded) <= 16 THEN RaiseExc("ValueError")
          ELSE LET origin == IF Len(decoded) = 17 THEN At(decoded, 16)
                             ELSE At(decoded, 17) * 16 + At(decoded, 16)
                   unswapped == IF origin = OriginType.BASE_STATION THEN Upto(decoded, -2)
                                ELSE Upto(decoded, find(decoded, <<15>> \o Slice(decoded, 0, 4)))
               IN IF Len(unswapped) % 2 = 1 THEN RaiseExc("continue")
                  ELSE Return([i \in 1..(Len(unswapped) \div 2) |->
                                 unswapped[2 * i] * 16 + unswapped[2 * i - 1]])

\* where a glitch, a high pulse of GlitchWidth microseconds, comes on the
\* line: nowhere, before the transmission, or 400 us into the low half of its
\* third SYNC period.  A glitch pulse is <<level, us, "glitch">>.
GlitchPlaces == {"none", "before", "sync"}

Glitched(pulses, place) ==
  CASE place = "none" -> pulses
    [] place = "before" -> <<<<1, GlitchWidth, "glitch">>, <<0, 1000>>>> \o pulses
    [] place = "sync" ->
         SubSeq(pulses, 1, 4)
           \o <<<<0, 400>>, <<1, GlitchWidth, "glitch">>, <<0, 600 - GlitchWidth>>>>
           \o SubSeq(pulses, 6, Len(pulses))

\* RFUtils.send_wave(gpio, value) or RFUtils.send(gpio, value), in its
\* default mode "script", is called by a sender while recv listens, and a
\* glitch comes on the line; both functions write the pulses of their
\* Transceiver namesakes
RFSend ==
  \E mode \in {"wave", "script"}, extra \in {0, 1}, place \in GlitchPlaces :
    /\ stage = "new"
    /\ mode = "wave" => extra = 0
    /\ frame' = __bytes__(value)
    /\ \E pulses \in {IF mode = "wave" THEN send_wave(value) ELSE send(value, extra)} :
         w' = Glitched(pulses, place)
    /\ stage' = IF place = "none" THEN mode
                ELSE IF mode = "wave" THEN "wave-glitch" ELSE "script-glitch"
    /\ UNCHANGED <<value, line, rx, pipe, log, dev>>
    /\ RadioIdle

\* pigpiod plays the next pulse and calls _recv_cbf if the level of the line
\* changes.  rx[1] holds the globals of the receiver; rx[2] holds those of a
\* receiver on a line that is the same but for the glitch, and dev the level
\* of that line.
RFPlayPulse ==
  /\ w # <<>>
  /\ parsed = Pending
  /\ LET p == Head(w)
         level == IF Len(p) = 1 THEN line.level ELSE p[1]
         us == IF Len(p) = 1 THEN p[1] ELSE p[2]
         quiet == IF Len(p) = 2 THEN p[1] ELSE dev
         edge == level # line.level
     IN /\ edge /\ rx[1].done => line.missed < MaxMissed
        /\ rx' = << IF edge THEN _recv_cbf(rx[1], level, line.tick) ELSE rx[1],
                    IF quiet # dev THEN _recv_cbf(rx[2], quiet, line.tick) ELSE rx[2] >>
        /\ line' = [level |-> level, tick |-> line.tick + us,
                    missed |-> IF edge /\ rx[1].done THEN line.missed + 1 ELSE line.missed]
        /\ dev' = quiet
  /\ w' = Tail(w)
  /\ UNCHANGED <<value, frame, stage, pipe, log>>
  /\ RadioIdle

\* RFUtils.recv sees done: it ignores the message and goes round its loop
\* ("continue"), or it ends with what Message.factory returns or raises
recv ==
  \E q \in {swapped(rx[1].encoded)} :
    \E r \in {IF q.exc = "None" THEN Message_factory(q.out) ELSE q} :
      /\ rx[1].done
      /\ parsed = Pending
      /\ log' = Append(log, <<rx[1].encoded, rx[2].encoded, r>>)
      /\ rx' = IF r.exc = "continue" THEN <<Receiving, Receiving>> ELSE rx
      /\ parsed' = IF r.exc = "continue" THEN parsed ELSE r
      /\ line' = [line EXCEPT !.missed = 0]
      /\ UNCHANGED <<value, frame, stage, w, pipe, dev>>
      /\ StationIdle

\* RFUtils.recv(gpio) was called and waits for the first edge
RFInit ==
  /\ DeviceAtRest
  /\ value \in ModemValues
  /\ frame = <<>>
  /\ stage = "new"
  /\ parsed = Pending
  /\ w = <<>>
  /\ line = [level |-> 0, tick |-> 0, missed |-> 0]
  /\ rx = <<Receiving, Receiving>>
  /\ pipe = <<>>
  /\ log = <<>>
  /\ dev = 0

RFNext == RFSend \/ RFPlayPulse \/ recv

RFSpec == RFInit /\ [][RFNext]_vars


\* ================================================ devices.py: components
\* the fields of a Sensor after Sensor.__init__
NewSensor == [sequence |-> 0, _current_msg |-> None, _t |-> None, _tx_count |-> 0]

\* Keypad._inc
Keypad_inc(s) == [s EXCEPT !.sequence = (@ + 4) % 15]

\* the first statement of Sensor._send(msg): a message that is the current
\* one cancels the timer and counts
Sensor_send_begin(s, msg) ==
  IF msg = s._current_msg THEN _inc([s EXCEPT !._t = "cancelled", !._tx_count = 0]) ELSE s

\* Sensor._send(msg) from the return of txr.send(msg) on: _inc, and a Timer
\* that is made and never started
Sensor_send_end(s) == [_inc(s) EXCEPT !._t = "Timer"]

\* Sensor._send(msg) for the fields s; ok: txr.send(msg) returns, else it raises
Sensor_send(s, msg, ok) ==
  LET s1 == Sensor_send_begin(s, msg)
  IN IF s1._tx_count < 2
       THEN IF ok THEN Sensor_send_end(s1) ELSE s1
     ELSE _inc([s1 EXCEPT !._tx_count = 0])

\* a method of the base station, of a Keypad or of a Sensor sends a message
\* that carries the sequence counter: AbstractDevice._send with the _inc of
\* the device, or Sensor._send.  txr.send returns or raises.  log holds the
\* device, the outcome and the counter in the message.
DeviceSend ==
  \E d \in {"BaseStation", "Keypad", "Sensor"}, ok \in BOOLEAN :
    /\ dev' = [dev EXCEPT ![d] = CASE d = "Sensor" -> Sensor_send(@, "msg", ok)
                                   [] d = "Keypad" -> IF ok THEN Keypad_inc(@) ELSE @
                                   [] OTHER -> IF ok THEN _inc(@) ELSE @]
    /\ log' = <<d, IF ok THEN "sent" ELSE "failed", dev[d].sequence>>
    /\ UNCHANGED <<value, frame, stage, w, line, rx, pipe>>
    /\ RadioIdle

\* the three devices after construction
SequenceInit ==
  /\ DeviceAtRest
  /\ value = <<>>
  /\ frame = <<>>
  /\ stage = "new"
  /\ parsed = Pending
  /\ w = <<>>
  /\ line = [level |-> 0, tick |-> 0, missed |-> 0]
  /\ rx = None
  /\ pipe = <<>>
  /\ log = <<>>
  /\ dev = [BaseStation |-> [sequence |-> 0], Keypad |-> [sequence |-> 0],
            Sensor |-> NewSensor]

SequenceNext == DeviceSend

SequenceSpec == SequenceInit /\ [][SequenceNext]_vars


\* ------------------------------------------------- one sensor and its radio
\* dev holds the fields of the Sensor, w the calls of Transceiver.send that
\* have not returned, [msg, i, wake]: the message, the transmissions made and
\* the second at which sleep ends.  line.tick is the time in seconds, and log
\* holds <<"event", msg, time>> for a call of Sensor._send and
\* <<"tx", msg, time>> for a transmission.
EventMsgs == [k \in 1..(MaxEvents + 1) |-> <<"msg", k>>]

Events == { i \in DOMAIN log : log[i][1] = "event" }

\* a method of the sensor (EntrySensor.open, MotionSensor.trip, ...) makes a
\* message and calls Sensor._send(msg), which calls AbstractDevice._send and
\* so Transceiver.send(msg), up to its first sleep(2)
SensorEvent ==
  /\ Cardinality(Events) < MaxEvents
  /\ LET msg == EventMsgs[Cardinality(Events) + 1]
         s1 == Sensor_send_begin(dev, msg)
     IN IF s1._tx_count < 2
          THEN /\ dev' = s1
               /\ log' = log \o << <<"event", msg, line.tick>>, <<"tx", msg, line.tick>> >>
               /\ w' = Append(w, [msg |-> msg, i |-> 1, wake |-> line.tick + 2])
          ELSE /\ dev' = _inc([s1 EXCEPT !._tx_count = 0])
               /\ log' = Append(log, <<"event", msg, line.tick>>)
               /\ w' = w
  /\ UNCHANGED <<value, frame, stage, line, rx, pipe>>
  /\ RadioIdle

\* Transceiver.send(msg), once more around its loop for a SensorMessage:
\* sleep(2) ends, f(msg) and the next sleep(2)
Transmit ==
  \E k \in DOMAIN w :
    /\ w[k].i < 3
    /\ w[k].wake <= line.tick
    /\ log' = Append(log, <<"tx", w[k].msg, line.tick>>)
    /\ w' = [w EXCEPT ![k] = [@ EXCEPT !.i = @ + 1, !.wake = line.tick + 2]]
    /\ UNCHANGED <<value, frame, stage, line, rx, pipe, dev>>
    /\ RadioIdle

\* Transceiver.send(msg) returns after the third sleep, and Sensor._send goes on
SendReturns ==
  \E k \in DOMAIN w :
    /\ w[k].i = 3
    /\ w[k].wake <= line.tick
    /\ dev' = Sensor_send_end(dev)
    /\ w' = SubSeq(w, 1, k - 1) \o SubSeq(w, k + 1, Len(w))
    /\ UNCHANGED <<value, frame, stage, line, rx, pipe, log>>
    /\ RadioIdle

\* a second passes in which no sleep ends
Tick ==
  /\ line.tick < MaxTime
  /\ \A k \in DOMAIN w : w[k].wake > line.tick
  /\ line' = [line EXCEPT !.tick = @ + 1]
  /\ UNCHANGED <<value, frame, stage, w, rx, pipe, log, dev>>
  /\ RadioIdle

\* a Sensor after construction
SensorInit ==
  /\ DeviceAtRest
  /\ value = <<>>
  /\ frame = <<>>
  /\ stage = "new"
  /\ parsed = Pending
  /\ w = <<>>
  /\ line = [level |-> 0, tick |-> 0, missed |-> 0]
  /\ rx = None
  /\ pipe = <<>>
  /\ log = <<>>
  /\ dev = NewSensor

SensorNext == SensorEvent \/ Transmit \/ SendReturns \/ Tick

SensorSpec == SensorInit /\ [][SensorNext]_vars


\* ------------------------------------------- the pipe and the device thread
\* the frames decode hands to the pipe: those of ModemValues, and one of
\* another vendor, which decode lets through
PipeFrames ==
  { __bytes__(m) : m \in ModemValues }
    \cup { <<0>> \o Tail(__bytes__(Msg(Serial, "KeypadHomeRequest", <<3>>))) }

\* the fields of the base station that the device thread leaves alone here
StationQuiet ==
  UNCHANGED <<_armed, _time_left, _time_left_timer, timers, _siren_timer, sequence,
              _master_pin, _duress_pin, _pins, _components, siren_on, entry_cd, cd, last>>

\* Transceiver._listen: os.write(self._write_fd, decoded); dev holds the
\* frames written so far
PipeWrite ==
  \E decoded \in PipeFrames :
    /\ Len(dev) < MaxWrites
    /\ pipe' = pipe \o decoded
    /\ dev' = Append(dev, decoded)
    /\ UNCHANGED <<value, frame, stage, w, line, rx, log>>
    /\ RadioIdle

\* AbstractDevice._recv, once around its loop: Transceiver.recv reads up to
\* 24 bytes from the pipe and parses them, and the message goes to
\* _process_msg; an exception ends the device thread.  log holds the messages
\* handed to _process_msg.
DeviceRecv ==
  /\ recv_alive
  /\ pipe # <<>>
  /\ pipe' = SubSeq(pipe, 25, Len(pipe))
  /\ parsed' = Message_factory(Slice(pipe, 0, 24))
  /\ log' = IF parsed'.exc = "None" THEN Append(log, parsed'.out) ELSE log
  /\ recv_alive' = (parsed'.exc = "None")
  /\ UNCHANGED <<value, frame, stage, w, line, rx, dev>>
  /\ StationQuiet

\* a Transceiver and a device on it after construction
LinkInit ==
  /\ DeviceAtRest
  /\ value = <<>>
  /\ frame = <<>>
  /\ stage = "new"
  /\ parsed = Pending
  /\ w = <<>>
  /\ line = [level |-> 0, tick |-> 0, missed |-> 0]
  /\ rx = None
  /\ pipe = <<>>
  /\ log = <<>>
  /\ dev = <<>>

LinkNext == PipeWrite \/ DeviceRecv

LinkSpec == LinkInit /\ [][LinkNext]_vars


\* ------------------------------------------------- heartbeat supervision
\* dev holds _components as a sequence of [sn, last_heartbeat], where
\* last_heartbeat is <<>> for a component without the key and <<hour>>
\* otherwise; line.tick is the time in hours; w is <<a, b>>, the number of
\* heartbeat Timers that fire in this hour and in 24 hours; log holds the
\* alerts; stage says whether the object is a plain BaseStation or of a
\* subclass that defines HEARTBEAT_TIMEOUT, with the hours in value, and
\* alert(type, sn).
RECURSIVE HeartbeatLoop(_, _, _, _)
\* the loop of BaseStation._heartbeat_timer from the i-th component on; s is
\* [exc, alerts, comps, started], started the Timers started so far
HeartbeatLoop(i, s, now, timeout) ==
  IF i > Len(s.comps) \/ s.exc # "None" THEN s
  ELSE LET c == s.comps[i]
           timer == [s EXCEPT !.started = @ + 1]
       IN IF c.last_heartbeat # <<>>
            THEN IF timeout = <<>> THEN [s EXCEPT !.exc = "AttributeError"]
                 ELSE IF now - c.last_heartbeat[1] > timeout[1]
                   THEN HeartbeatLoop(i + 1, [timer EXCEPT !.alerts = Append(@, c.sn)], now, timeout)
                 ELSE HeartbeatLoop(i + 1, timer, now, timeout)
          ELSE HeartbeatLoop(i + 1, [timer EXCEPT !.comps[i].last_heartbeat = <<now>>],
                             now, timeout)

\* BaseStation._heartbeat_timer() at the hour now
_heartbeat_timer(comps, now, timeout) ==
  HeartbeatLoop(1, [exc |-> "None", alerts |-> <<>>, comps |-> comps, started |-> 0],
                now, timeout)

\* the components given to the constructor
HeartbeatConfigs ==
  { <<>>, <<"KP">>, <<"ES">>, <<"MS">>, <<"KP", "ES">>, <<"ES", "MS">>, <<"MS", "ES">>,
    <<"KP", "ES", "MS">> }

\* a heartbeat Timer fires and runs _heartbeat_timer
HeartbeatRun ==
  /\ w[1] > 0
  /\ LET r == _heartbeat_timer(dev, line.tick, value)
     IN /\ dev' = r.comps
        /\ w' = <<w[1] - 1, w[2] + r.started>>
        /\ log' = log \o [i \in DOMAIN r.alerts |-> <<line.tick, r.alerts[i]>>]
        /\ parsed' = [exc |-> r.exc, out |-> r.alerts]
  /\ UNCHANGED <<value, frame, stage, line, rx, pipe>>
  /\ StationIdle

\* 24 hours pass, after the Timers of this hour have fired
HeartbeatDay ==
  /\ w[1] = 0
  /\ line.tick + 24 <= MaxHours
  /\ line' = [line EXCEPT !.tick = @ + 24]
  /\ w' = <<w[2], 0>>
  /\ UNCHANGED <<value, frame, stage, rx, pipe, log, dev>>
  /\ RadioIdle

\* a base station after construction, which has called _heartbeat_timer once
HeartbeatInit ==
  /\ DeviceAtRest
  /\ frame = <<>>
  /\ \/ stage = "BaseStation" /\ value = <<>>
     \/ stage = "subclass" /\ value \in {<<12>>, <<36>>}
  /\ parsed = Pending
  /\ line = [level |-> 0, tick |-> 0, missed |-> 0]
  /\ rx = None
  /\ pipe = <<>>
  /\ log = <<>>
  /\ \E sns \in HeartbeatConfigs :
       LET r == _heartbeat_timer([i \in DOMAIN sns |-> [sn |-> sns[i], last_heartbeat |-> <<>>]],
                                 0, value)
       IN /\ dev = r.comps
          /\ w = <<0, r.started>>

HeartbeatNext == HeartbeatRun \/ HeartbeatDay

HeartbeatSpec == HeartbeatInit /\ [][HeartbeatNext]_vars


\* ==================================================== devices.py: Keypad
\* dev holds the fields of one Keypad object, log the last call made on it:
\* <<method, argument, exception, messages sent>>.  The buttons are called by
\* the host; Keypad._process_msg runs in the device thread, which an
\* exception ends.  The class assigns _page only in __init__ (BOOT) and in
\* _process_msg and numpad (the two pin pages), and _menu_page only in
\* _process_msg; the other pages are shown by the host's subclass, so the
\* keypad starts on any page and inside or outside the menu.

\* Keypad.Page: ENTER_MENU_PIN has the value of ENTER_DISARM_PIN and so is an
\* alias of it (the @unique of UniqueEnum checks UniqueEnum alone)
Page ==
  [BOOT |-> "BOOT", ALARM_STATE |-> "ALARM_STATE", SENSOR_ERROR |-> "SENSOR_ERROR",
   ENTER_DISARM_PIN |-> "ENTER_DISARM_PIN", ENTER_MENU_PIN |-> "ENTER_DISARM_PIN"]

\* Keypad.Menu, in the order of definition
Menu ==
  <<"CHANGE_PIN", "DIALING_PREFIX", "ADD_COMPONENT", "REMOVE_COMPONENT", "TEST", "EXIT_MENU">>

\* Keypad.AddComponentMenu, in the order of definition
AddComponentMenu ==
  <<"ENTRY_SENSOR", "MOTION_SENSOR", "PANIC_BUTTON", "KEYPAD", "KEYCHAIN_REMOTE",
    "GLASSBREAK_SENSOR", "CO_DETECTOR", "SMOKE_DETECTOR", "WATER_SENSOR", "FREEZE_SENSOR">>

\* the attributes that Keypad and its base classes define: reading any other
\* name through self raises AttributeError
KeypadAttributes ==
  {"_cancel_countdown", "_countdown", "_display", "_inc", "_menu_enter", "_menu_next",
   "_menu_prev", "_process_msg", "_recv", "_send", "in_menu", "is_armed", "is_armed_away",
   "is_armed_home", "is_arming", "is_editing", "mode", "page", "away", "off", "home",
   "numpad", "menu", "panic", "delete", "button_beep", "display", "backlight", "warning_beep"}

\* the keypad after Keypad.__init__, which sends one KeypadExtendedStatusRequest;
\* _remove_component_menu_page is <<>> for None and <<n>> for the index n
NewKeypad ==
  [_armed |-> "unset", sequence |-> 4, armed |-> None, time_left |-> None,
   _page |-> Page.BOOT, _menu_page |-> None, _add_component_menu_page |-> None,
   _remove_component_menu_page |-> <<>>, _backlight_timer |-> None,
   _entry_buffer |-> "unset", _enter_menu_timer |-> "unset", alive |-> TRUE]

\* a call on the keypad k: no exception yet, nothing sent yet
KCall(k) == [k |-> k, exc |-> None, sent |-> <<>>]

\* raise e, unless an exception has ended the call before
KRaise(o, e) == IF o.exc # None THEN o ELSE [o EXCEPT !.exc = e]

\* self._send(cls(self.sn, self.sequence, ...)): AbstractDevice._send with Keypad._inc
Keypad_send(o, cls, args) ==
  IF o.exc # None THEN o
  ELSE [o EXCEPT !.sent = Append(@, <<cls, o.k.sequence, args>>), !.k = Keypad_inc(@)]

\* Keypad._display(): the backlight Timer is replaced by a new one
Keypad_display(o) ==
  IF o.exc # None THEN o ELSE [o EXCEPT !.k._backlight_timer = "Timer"]

\* Keypad.in_menu
in_menu(k) == k._menu_page # None

\* Keypad.is_editing
is_editing(k) == k._page = Page.ENTER_DISARM_PIN \/ k._page = Page.ENTER_MENU_PIN

\* Keypad._menu_enter
_menu_enter(o) == o

\* Keypad._menu_prev
_menu_prev(o) == o

\* the member after m in the enum e
After(e, m) == e[(CHOOSE i \in DOMAIN e : e[i] = m) + 1]

\* Keypad._menu_next.  Lines 644 and 646 compare (==) and assign nothing.
_menu_next(o) ==
  LET k == o.k
      a == k._add_component_menu_page
  IN Keypad_display(
       CASE k._menu_page = "CHANGE_PIN" -> o
         [] k._menu_page = "DIALING_PREFIX" -> o
         [] k._menu_page = "ADD_COMPONENT" ->
              IF a = None THEN [o EXCEPT !.k._menu_page = "REMOVE_COMPONENT"]
              ELSE IF a = "WATER_SENSOR"
                   THEN Keypad_send([o EXCEPT !.k._add_component_menu_page = "FREEZE_SENSOR"],
                                    "KeypadAddComponentLastTypeMenuRequest", <<>>)
              ELSE IF a = "FREEZE_SENSOR" THEN o
              ELSE [o EXCEPT !.k._add_component_menu_page = After(AddComponentMenu, a)]
         [] k._menu_page = "REMOVE_COMPONENT" ->
              IF k._remove_component_menu_page = <<>>
              THEN [o EXCEPT !.k._menu_page = "TEST"]
              ELSE LET o1 == [o EXCEPT !.k._remove_component_menu_page = <<@[1] + 1>>]
                   IN IF "_remove_component_menu_n" \in KeypadAttributes
                      THEN Keypad_send(o1, "KeypadRemoveComponentScrollMenuRequest",
                                       <<o1.k._remove_component_menu_page>>)
                      ELSE KRaise(o1, "AttributeError")
         [] k._menu_page = "TEST" -> [o EXCEPT !.k._menu_page = "EXIT_MENU"]
         [] OTHER -> o)

\* Keypad.away
away(k) ==
  IF in_menu(k) THEN _menu_enter(KCall(k))
  ELSE Keypad_send(KCall(k), "KeypadAwayRequest", <<>>)

\* Keypad.off
off(k) ==
  IF in_menu(k) THEN _menu_prev(KCall(k))
  ELSE Keypad_send(KCall(k), "KeypadOffRequest", <<>>)

\* Keypad.home
home(k) ==
  IF in_menu(k) THEN _menu_next(KCall(k))
  ELSE Keypad_send(KCall(k), "KeypadHomeRequest", <<>>)

\* Keypad.numpad.  The first test reads Keypad.Page.ALARM_STATUS, which the
\* enum does not have; no statement of numpad sends a message.
numpad(k, n) ==
  LET o == KCall(k)
  IN IF ~(0 <= n /\ n <= 9) THEN KRaise(o, "ValueError")
     ELSE IF "ALARM_STATUS" \notin DOMAIN Page THEN KRaise(o, "AttributeError")
     ELSE IF k._page = Page["ALARM_STATUS"] \/ k._page = Page.SENSOR_ERROR
          THEN Keypad_display([o EXCEPT !.k._entry_buffer = <<n>>,
                                        !.k._page = Page.ENTER_DISARM_PIN])
     ELSE IF k._page = Page.ENTER_DISARM_PIN
          THEN IF k._entry_buffer = "unset" THEN KRaise(o, "AttributeError")
               ELSE Keypad_display([o EXCEPT !.k._entry_buffer = Append(@, n)])
     ELSE Keypad_display(o)

\* Keypad.menu
menu(k) ==
  IF in_menu(k)
  THEN IF "_menu_cancel" \in KeypadAttributes THEN KCall(k)
       ELSE KRaise(KCall(k), "AttributeError")
  ELSE Keypad_send(KCall(k), "KeypadEnterMenuRequest", <<>>)

\* Keypad.panic
panic(k) == Keypad_send(KCall(k), "KeypadPanicRequest", <<>>)

\* Keypad.delete
delete(k) ==
  IF is_editing(k)
  THEN IF k._entry_buffer = "unset" THEN KRaise(KCall(k), "AttributeError")
       ELSE Keypad_display([KCall(k) EXCEPT !.k._entry_buffer =
                              IF @ = <<>> THEN @ ELSE SubSeq(@, 1, Len(@) - 1)])
  ELSE IF in_menu(k)
  THEN IF "_prev" \in KeypadAttributes THEN KCall(k) ELSE KRaise(KCall(k), "AttributeError")
  ELSE KCall(k)

\* the classes of base station messages the keypad is sent, with the armed
\* state and the time left that an extended status carries
KeypadInbox ==
  { [cls |-> c, armed |-> a, tl |-> 0] :
      c \in {"BaseStationKeypadExtendedStatusResponse", "BaseStationKeypadStatusUpdate",
             "BaseStationKeypadInvalidMenuPinResponse", "BaseStationKeypadValidMenuPinResponse",
             "BaseStationKeypadEnterMenuResponse", "BaseStationKeypadHomeResponse",
             "KeypadHomeRequest"},
      a \in {ArmedState.OFF} }

\* Keypad._process_msg for a message that carries the keypad's serial.
\* _countdown reads self._armed, which nothing assigns (691-700 assign
\* self.armed); self._enter_menu_timer is read at 707 and 712 and is assigned
\* only at 710 and 722, where Time is not defined and self._menu_cancel is
\* not an attribute.
Keypad_process_msg(k, msg) ==
  LET o == KCall(k)
  IN CASE msg.cls = "KeypadHomeRequest" -> o       \* not a BaseStationKeypadMessage
       [] msg.cls = "BaseStationKeypadExtendedStatusResponse" ->
            LET o1 == [o EXCEPT !.k.armed = msg.armed, !.k.time_left = msg.tl]
            IN IF k._armed = "unset" THEN KRaise(o1, "AttributeError")
               ELSE Keypad_display(o1)
       [] msg.cls = "BaseStationKeypadStatusUpdate" -> Keypad_display(o)
       [] msg.cls = "BaseStationKeypadInvalidMenuPinResponse" ->
            IF k._enter_menu_timer = "unset" THEN KRaise(o, "AttributeError")
            ELSE KRaise([o EXCEPT !.k._entry_buffer = <<>>, !.k._page = Page.ENTER_MENU_PIN],
                        "NameError")
       [] msg.cls = "BaseStationKeypadValidMenuPinResponse" ->
            IF k._enter_menu_timer = "unset" THEN KRaise(o, "AttributeError")
            ELSE Keypad_display([o EXCEPT !.k._menu_page = "CHANGE_PIN"])
       [] msg.cls = "BaseStationKeypadEnterMenuResponse" ->
            LET o1 == [o EXCEPT !.k._page = Page.ENTER_MENU_PIN]
            IN IF "_menu_cancel" \in KeypadAttributes
               THEN Keypad_display([o1 EXCEPT !.k._enter_menu_timer = "Timer"])
               ELSE KRaise(o1, "AttributeError")
       [] OTHER -> Keypad_display(o)

\* the digits the host passes to numpad; 10 is not a digit
Digits == {0, 1, 7, 10}

\* a call of method with argument arg that ended as o
KeypadDone(method, arg, o) ==
  /\ dev' = o.k
  /\ log' = <<method, arg, o.exc, o.sent>>
  /\ UNCHANGED <<value, frame, stage, parsed, w, line, rx, pipe>>
  /\ StationIdle

PressAway == KeypadDone("away", None, away(dev))

PressOff == KeypadDone("off", None, off(dev))

\* the scroll index of the remove-component menu is followed up to MaxScroll
PressHome ==
  /\ IF dev._remove_component_menu_page = <<>> THEN TRUE
     ELSE dev._remove_component_menu_page[1] < MaxScroll
  /\ KeypadDone("home", None, home(dev))

PressNumpad == \E n \in Digits : KeypadDone("numpad", n, numpad(dev, n))

PressMenu == KeypadDone("menu", None, menu(dev))

PressPanic == KeypadDone("panic", None, panic(dev))

PressDelete == KeypadDone("delete", None, delete(dev))

\* AbstractDevice._recv of the keypad: one message is processed; an exception
\* ends the device thread
KeypadRecv ==
  \E msg \in KeypadInbox :
    /\ dev.alive
    /\ \E o \in {Keypad_process_msg(dev, msg)} :
         KeypadDone("_process_msg", msg.cls, [o EXCEPT !.k.alive = (o.exc = None)])

KeypadInit ==
  /\ DeviceAtRest
  /\ value = <<>>
  /\ frame = <<>>
  /\ stage = "new"
  /\ parsed = Pending
  /\ w = <<>>
  /\ line = [level |-> 0, tick |-> 0, missed |-> 0]
  /\ rx = None
  /\ pipe = <<>>
  /\ log = <<>>
  /\ \E p \in {Page[f] : f \in DOMAIN Page},
        m \in {None} \cup {Menu[i] : i \in DOMAIN Menu},
        a \in {None, "ENTRY_SENSOR", "SMOKE_DETECTOR"},
        r \in {<<>>, <<0>>} :
       /\ a # None => m = "ADD_COMPONENT"
       /\ r # <<>> => m = "REMOVE_COMPONENT"
       /\ dev = [NewKeypad EXCEPT !._page = p, !._menu_page = m,
                                  !._add_component_menu_page = a,
                                  !._remove_component_menu_page = r]

KeypadNext ==
  \/ PressAway
  \/ PressOff
  \/ PressHome
  \/ PressNumpad
  \/ PressMenu
  \/ PressPanic
  \/ PressDelete
  \/ KeypadRecv

KeypadSpec == KeypadInit /\ [][KeypadNext]_vars


\* ============================== devices.py: the threads of a BaseStation
\* The device thread (AbstractDevice._recv) and the threading.Timer threads
\* that run BaseStation._countdown work on one object; devices.py takes no
\* lock.  Here each thread runs its handler line by line, and any thread that
\* is inside a handler may take the next step.  A thread is [silent, pc,
\* ret]: the argument of _alarm, the line it is about to execute and the
\* lines to return to.  A call in the last position of a method is a jump.
\* _time_left_timer holds the Timer the attribute refers to, [st, th, cur],
\* timers the other Timers that are alive, dev the device thread; cur marks
\* the Timer whose thread is taking the step.

\* a thread about to execute the line pc
Thread(pc) == [silent |-> FALSE, pc |-> pc, ret |-> <<>>]

\* a Timer object: its state and the thread that runs its callback
NewTimer == [st |-> "initial", th |-> Thread("l178"), cur |-> FALSE]

NoTimer == [st |-> "unset", th |-> Thread("l178"), cur |-> FALSE]

\* the fields of the object that the lines read and write
Fields ==
  [timers |-> timers, sequence |-> sequence, siren_on |-> siren_on,
   tlt |-> _time_left_timer, armed |-> _armed, time_left |-> _time_left,
   siren_timer |-> _siren_timer]

\* the thread t goes on at the line pc
Goto(t, o, pc) == [t |-> [t EXCEPT !.pc = pc], o |-> o]

\* the method returns: the thread goes on after the call, or its handler ends
ReturnTo(t, o) ==
  IF t.ret = <<>> THEN Goto(t, o, "end")
  ELSE [t |-> [t EXCEPT !.pc = Head(t.ret), !.ret = Tail(t.ret)], o |-> o]

\* the method at pc is called and returns to the line after
CallFrom(t, o, pc, after) == [t |-> [t EXCEPT !.pc = pc, !.ret = <<after>> \o @], o |-> o]

\* self._time_left_timer = Timer(1, self._countdown): a Timer that is alive
\* and loses its reference lives on
AssignTimer(o) ==
  [o EXCEPT !.tlt = NewTimer,
            !.timers = IF is_alive(o.tlt.st) THEN Append(@, o.tlt) ELSE @]

\* one line of BaseStation executed by the thread t on the fields o
Line(t, o) ==
  CASE \* _process_msg, KeypadAwayRequest (285-287)
       t.pc = "l286" -> CallFrom(t, o, "l164", "l287")
    [] t.pc = "l287" -> ReturnTo(t, _inc(o))
       \* _process_msg, KeychainRemoteMessage OFF (359-360)
    [] t.pc = "l360" -> Goto(t, o, "l199")
       \* _process_msg, EntrySensorMessage OPEN of a sensor set to
       \* ALARM_HOME_AND_AWAY (375-378); instant_trip is None
    [] t.pc = "l376" -> IF is_armed(o) THEN Goto(t, o, "l378") ELSE ReturnTo(t, o)
    [] t.pc = "l378" -> Goto(t, o, "l392")
       \* _alarm (152-161)
    [] t.pc = "l153" -> CallFrom(t, o, "l173", "l154")
    [] t.pc = "l154" -> IF t.silent THEN Goto(t, o, "l161") ELSE Goto(t, o, "l155")
    [] t.pc = "l155" -> IF o.siren_timer # None THEN Goto(t, o, "raise")
                        ELSE Goto(t, o, "l158")
    [] t.pc = "l158" -> Goto(t, [o EXCEPT !.siren_on = TRUE], "l159")
    [] t.pc = "l159" -> Goto(t, [o EXCEPT !.siren_timer = "initial"], "l160")
    [] t.pc = "l160" -> Goto(t, o, "raise")
    [] t.pc = "l161" -> ReturnTo(t, o)
       \* _arm_away (163-166)
    [] t.pc = "l164" -> Goto(t, [o EXCEPT !.armed = ArmedStatus.ARMING_AWAY], "l165")
    [] t.pc = "l165" -> Goto(t, [o EXCEPT !.time_left = settings.exit_delay], "l178")
       \* _cancel_countdown (172-175)
    [] t.pc = "l173" -> IF o.tlt.st = "unset" THEN Goto(t, o, "raise")
                        ELSE IF is_alive(o.tlt.st) THEN Goto(t, o, "l174")
                        ELSE Goto(t, o, "l175")
    [] t.pc = "l174" -> Goto(t, [o EXCEPT !.tlt.st = IF @ = "waiting" THEN "done" ELSE @],
                             "l175")
    [] t.pc = "l175" -> ReturnTo(t, [o EXCEPT !.time_left = 0])
       \* _countdown (177-196)
    [] t.pc = "l178" -> IF ~is_armed(o) /\ ~is_arming(o) THEN Goto(t, o, "l173")
                        ELSE Goto(t, o, "l180")
    [] t.pc = "l180" -> IF is_armed(o) THEN Goto(t, o, "l181") ELSE Goto(t, o, "l188")
    [] t.pc = "l181" -> IF o.time_left = 0 THEN Goto([t EXCEPT !.silent = FALSE], o, "l153")
                        ELSE Goto(t, o, "l184")
    [] t.pc = "l184" -> Goto(t, [o EXCEPT !.time_left = @ - 1], "l186")
    [] t.pc = "l186" -> Goto(t, AssignTimer(o), "l187")
    [] t.pc = "l187" -> IF o.tlt.st = "initial"
                        THEN ReturnTo(t, [o EXCEPT !.tlt.st = "waiting"])
                        ELSE Goto(t, o, "raise")   \* RuntimeError: started twice
    [] t.pc = "l188" -> IF is_arming(o) THEN Goto(t, o, "l189") ELSE ReturnTo(t, o)
    [] t.pc = "l189" -> IF o.time_left = 0 THEN Goto(t, o, "l190") ELSE Goto(t, o, "l193")
    [] t.pc = "l190" -> Goto(t, [o EXCEPT !.armed = ArmedState.ARMED_AWAY], "l191")
    [] t.pc = "l191" -> ReturnTo(t, o)
    [] t.pc = "l193" -> Goto(t, [o EXCEPT !.time_left = @ - 1], "l195")
    [] t.pc = "l195" -> Goto(t, AssignTimer(o), "l196")
    [] t.pc = "l196" -> IF o.tlt.st = "initial"
                        THEN ReturnTo(t, [o EXCEPT !.tlt.st = "waiting"])
                        ELSE Goto(t, o, "raise")
       \* _disarm (198-203); the siren Timer is never alive (line 160)
    [] t.pc = "l199" -> Goto(t, [o EXCEPT !.armed = ArmedState.OFF], "l200")
    [] t.pc = "l200" -> Goto(t, o, "l202")
    [] t.pc = "l202" -> Goto(t, [o EXCEPT !.siren_on = FALSE], "l203")
    [] t.pc = "l203" -> ReturnTo(t, o)
       \* _trip (389-397)
    [] t.pc = "l392" -> IF o.time_left = 0 THEN Goto(t, o, "l393") ELSE ReturnTo(t, o)
    [] t.pc = "l393" -> IF is_armed_away(o) THEN Goto(t, o, "l394") ELSE Goto(t, o, "l397")
    [] t.pc = "l394" -> Goto(t, [o EXCEPT !.time_left = settings.entry_delay_away], "l397")
    [] t.pc = "l397" -> Goto(t, o, "l178")

\* the Timer x after the step that left the running thread as t
AfterStep(x, t) ==
  IF x.cur THEN [x EXCEPT !.th = t, !.cur = FALSE,
                          !.st = IF t.pc \in {"end", "raise"} THEN "done" ELSE @]
  ELSE x

\* the fields after a step
Store(o) ==
  /\ _armed' = o.armed
  /\ _time_left' = o.time_left
  /\ _siren_timer' = o.siren_timer
  /\ siren_on' = o.siren_on
  /\ sequence' = o.sequence
  /\ UNCHANGED <<_master_pin, _duress_pin, _pins, _components, entry_cd, cd, last,
                 codec, w, line, rx, pipe, log>>

\* the first lines of _process_msg for the messages of enrolled components
Handlers ==
  [KeypadAwayRequest |-> "l286", KeychainRemoteMessage |-> "l360",
   EntrySensorMessage |-> "l376"]

\* AbstractDevice._recv: txr.recv() returns a message and _process_msg starts
ThreadRecv ==
  \E cls \in DOMAIN Handlers :
    /\ recv_alive /\ dev.pc = "recv"
    /\ dev' = Thread(Handlers[cls])
    /\ UNCHANGED <<_time_left_timer, timers, recv_alive>>
    /\ Store(Fields)

\* the device thread executes one line; an exception ends the thread
ThreadStep ==
  /\ recv_alive /\ dev.pc \notin {"recv", "raise"}
  /\ \E r \in {Line(dev, Fields)} :
       /\ Len(r.o.timers) < MaxTimers
       /\ r.o.time_left >= -MaxOverrun
       /\ dev' = IF r.t.pc = "end" THEN Thread("recv") ELSE r.t
       /\ recv_alive' = (r.t.pc # "raise")
       /\ _time_left_timer' = r.o.tlt
       /\ timers' = r.o.timers
       /\ Store(r.o)

\* threading.Timer.run: the interval of a Timer is over and it was not
\* cancelled; its thread is about to call _countdown
ThreadExpire ==
  /\ \/ /\ _time_left_timer.st = "waiting"
        /\ _time_left_timer' = [_time_left_timer EXCEPT !.st = "running"]
        /\ timers' = timers
     \/ \E i \in DOMAIN timers :
          /\ timers[i].st = "waiting"
          /\ timers' = [timers EXCEPT ![i].st = "running"]
          /\ _time_left_timer' = _time_left_timer
  /\ UNCHANGED <<dev, recv_alive>>
  /\ Store(Fields)

\* a Timer thread executes one line of _countdown; the thread ends with the
\* callback or with an exception
TimerStep ==
  \E i \in 0..Len(timers) :
    \E x \in {IF i = 0 THEN _time_left_timer ELSE timers[i]} :
      /\ x.st = "running"
      /\ \E r \in {Line(x.th, [Fields EXCEPT
                                 !.tlt = IF i = 0 THEN [@ EXCEPT !.cur = TRUE] ELSE @,
                                 !.timers = IF i = 0 THEN @
                                            ELSE [@ EXCEPT ![i].cur = TRUE]])} :
           /\ Len(r.o.timers) < MaxTimers
           /\ r.o.time_left >= -MaxOverrun
           /\ _time_left_timer' = AfterStep(r.o.tlt, r.t)
           /\ timers' = SelectSeq([j \in DOMAIN r.o.timers |-> AfterStep(r.o.timers[j], r.t)],
                                  LAMBDA y : y.st # "done")
           /\ UNCHANGED <<dev, recv_alive>>
           /\ Store(r.o)

ThreadInit ==
  /\ _armed = ArmedState.OFF
  /\ _time_left = 0
  /\ _time_left_timer = NoTimer
  /\ timers = <<>>
  /\ _siren_timer = None
  /\ sequence = 0
  /\ _master_pin = MasterPin
  /\ _duress_pin = DuressPin
  /\ _pins = <<>>
  /\ _components \in {c \in Configs : c[3].setting = EntrySensorSetting.ALARM_HOME_AND_AWAY}
  /\ recv_alive = TRUE
  /\ siren_on = FALSE
  /\ entry_cd = FALSE
  /\ cd = NoCd
  /\ last = [exc |-> FALSE, sent |-> <<>>, calls |-> <<>>, path |-> {},
             branch |-> "none", tl0 |-> -1,
             msg |-> [sn |-> None, cls |-> "none", pin |-> None, event_type |-> 0],
             stale |-> FALSE, op |-> "init"]
  /\ value = None
  /\ frame = <<>>
  /\ stage = "idle"
  /\ parsed = None
  /\ w = <<>>
  /\ line = [level |-> 0, tick |-> 0, missed |-> 0]
  /\ rx = None
  /\ pipe = <<>>
  /\ log = <<>>
  /\ dev = Thread("recv")

ThreadNext == ThreadRecv \/ ThreadStep \/ ThreadExpire \/ TimerStep

ThreadSpec == ThreadInit /\ [][ThreadNext]_vars


\* ================================ the two demodulators on arbitrary edges
\* Transceiver._listen_cbf (pigpio.py) and _recv_cbf (RFUtils.py) are called
\* for every edge of a line that changes level after any of the widths in
\* Widths.  rx is <<fields of the Transceiver, globals of RFUtils>>, w the
\* last edge <<level, width>>, line.level the level of the line.  Time is
\* counted from the last edge: the callback is called with tick = width and
\* the stored ticks are moved back by the width after it.  log holds for each
\* demodulator what was on the line since it began to listen: the last four
\* symbols, whether a level-1 delimiter came after four 1 symbols (at all,
\* and since the last long pulse outside a transmission), and the symbols
\* received while the preamble flag is set, since it was last set.

\* a glitch, a 0, an invalid width, a 1, a 2 ms delimiter, a long pulse
Widths == {GlitchWidth, 500, BadWidth, 1000, 2000, 3000}

\* the fields of demodulator i under common names
View(r, i) ==
  IF i = 1
  THEN [t |-> r._rx_t, bits |-> r._rx_buffer, done |-> r._rx_done, skip |-> FALSE,
        low |-> r._rx_preamble_low, high |-> r._rx_preamble_high,
        sync |-> r._rx_sync_buffer]
  ELSE [t |-> r.t, bits |-> r.encoded, done |-> r.done, skip |-> r.skip,
        low |-> r.start_flag0, high |-> r.start_flag1, sync |-> r.sync_buffer]

\* the callback of demodulator i
Callback(r, i, level, tick) ==
  IF i = 1 THEN _listen_cbf(r, level, tick) ELSE _recv_cbf(r, level, tick)

\* the stored tick of demodulator i, counted from the edge at tick; after
\* the end of a transmission the tick is read no more and is left alone
Rebase(r, i, tick) ==
  IF View(r, i).done THEN r
  ELSE IF i = 1 THEN [r EXCEPT !._rx_t = IF @ = <<>> THEN @ ELSE <<@[1] - tick>>]
  ELSE [r EXCEPT !.t = IF @ = <<>> THEN @ ELSE <<@[1] - tick>>]

\* the pulse width the callback measures at an edge, dt in microseconds; 0
\* for an edge it does not measure (the first one, one after the end of the
\* transmission, and in RFUtils the edge after a glitch)
Measured(v, tick) ==
  IF v.done \/ v.t = <<>> \/ v.skip THEN 0 ELSE tick - v.t[1]

\* lines 76-82 of pigpio.py, 42-48 of RFUtils.py: the edge sets the flag
\* _rx_preamble_high (start_flag1)
SetsHigh(v, level, dt) ==
  dt > 1900 /\ dt <= 2100 /\ v.sync = <<"1", "1", "1", "1">> /\ level # 1 /\ v.low

NoHistory == [since |-> <<>>, last4 |-> <<>>, lowAcc |-> FALSE, lowSinceReset |-> FALSE]

\* what was on the line, after an edge of the level that the demodulator
\* with the fields v measured as dt
History(h, v, level, dt) ==
  IF dt = 0 THEN h
  ELSE IF dt > 2100
    THEN IF v.high THEN h ELSE [h EXCEPT !.lowSinceReset = FALSE]
  ELSE IF dt > 1900
    THEN [h EXCEPT !.since = IF SetsHigh(v, level, dt) THEN <<>> ELSE @,
                   !.lowAcc = @ \/ (level = 1 /\ h.last4 = <<"1", "1", "1", "1">>),
                   !.lowSinceReset = @ \/ (level = 1 /\ h.last4 = <<"1", "1", "1", "1">>)]
  ELSE [h EXCEPT !.since = IF v.high THEN @ \o <<Symbol(dt)>> ELSE <<>>,
                 !.last4 = Last4(@ \o <<Symbol(dt)>>)]

\* the level of the line changes dt microseconds after the last edge, and
\* pigpio calls the callback of the demodulator dev that listens on the line
Edge ==
  \E dt \in Widths :
    LET level == 1 - line.level
        v == View(rx[dev], dev)
        r == Callback(rx[dev], dev, level, dt)
        m == Measured(v, dt)
    IN /\ Len(View(r, dev).bits) <= MaxBits
       /\ rx' = [rx EXCEPT ![dev] = Rebase(r, dev, dt)]
       /\ log' = [log EXCEPT ![dev] = IF dev = 2 /\ m < 400 THEN @
                                      ELSE History(@, v, level, m)]
       /\ w' = <<level, dt>>
       /\ line' = [line EXCEPT !.level = level]
       /\ stage' = "edge"
       /\ UNCHANGED <<value, frame, parsed, pipe, dev>>
       /\ StationIdle

\* the loop of Transceiver._listen (105-115) or of RFUtils.recv (69-85) takes
\* the finished transmission and sets the fields for the next one
Relisten ==
  /\ View(rx[dev], dev).done
  /\ rx' = [rx EXCEPT ![dev] = IF dev = 1 THEN Listening ELSE Receiving]
  /\ log' = [log EXCEPT ![dev] = NoHistory]
  /\ stage' = "listen"
  /\ UNCHANGED <<value, frame, parsed, pipe, dev, w, line>>
  /\ StationIdle

DemodInit ==
  /\ DeviceAtRest
  /\ value = <<>>
  /\ frame = <<>>
  /\ stage = "listen"
  /\ parsed = Pending
  /\ w = <<>>
  /\ line = [level |-> 0, tick |-> 0, missed |-> 0]
  /\ rx = <<Listening, Receiving>>
  /\ pipe = <<>>
  /\ log = <<NoHistory, NoHistory>>
  /\ dev \in {1, 2}

DemodNext == Edge \/ Relisten

DemodSpec == DemodInit /\ [][DemodNext]_vars


\* ====================================== the base station and its sensors
\* The base station with an entry, a motion and a glassbreak sensor enrolled
\* under each setting, armed and disarmed by keypad and keychain remote.

\* the components lists handed to __init__ : <<entry, motion, glassbreak, instant_trip>>
TripChoices ==
  { <<1, 1, 1, True>>, <<2, 2, 2, False>>, <<64, 64, 0, True>>, <<0, 0, 1, False>> }

TripConfigs ==
  { << add_component("KP", DeviceType.KEYPAD, 1, None),
       add_component("KR", DeviceType.KEYCHAIN_REMOTE, 1, None),
       add_component("ES", DeviceType.ENTRY_SENSOR, t[1], t[4]),
       add_component("MS", DeviceType.MOTION_SENSOR, t[2], t[4]),
       add_component("GS", DeviceType.GLASSBREAK_SENSOR, t[3], t[4]) >> : t \in TripChoices }

GlassbreakSensorMessage ==
  \E sn \in {"GS"}, e \in {0, 1, 2} :
    Deliver([sn |-> sn, cls |-> "GlassbreakSensorMessage", pin |-> None, event_type |-> e])

TripInit ==
  /\ _armed = ArmedState.OFF
  /\ _time_left = 0
  /\ _time_left_timer = [st |-> "unset", stale |-> FALSE]
  /\ timers = NoTimers
  /\ _siren_timer = None
  /\ sequence = 0
  /\ _master_pin = MasterPin
  /\ _duress_pin = DuressPin
  /\ _pins = <<>>
  /\ _components \in TripConfigs
  /\ recv_alive = TRUE
  /\ siren_on = FALSE
  /\ entry_cd = FALSE
  /\ cd = NoCd
  /\ value = None
  /\ frame = <<>>
  /\ stage = "idle"
  /\ parsed = None
  /\ w = <<>>
  /\ line = [level |-> 0, tick |-> 0, missed |-> 0]
  /\ rx = None
  /\ pipe = <<>>
  /\ log = <<>>
  /\ dev = None
  /\ last = [exc |-> FALSE, sent |-> <<>>, calls |-> <<>>, path |-> {},
             branch |-> "none", tl0 |-> -1,
             msg |-> [sn |-> None, cls |-> "none", pin |-> None, event_type |-> 0],
             stale |-> FALSE, op |-> "init"]

TripNext ==
  \/ KeypadAwayRequest
  \/ KeypadHomeRequest
  \/ KeychainRemoteMessage
  \/ MotionSensorMessage
  \/ EntrySensorMessage
  \/ GlassbreakSensorMessage
  \/ TimerExpire
  \/ CountdownTick

TripSpec == TripInit /\ [][TripNext]_vars


\* ============================================ the master PIN and the menu
\* The base station under the messages with which a keypad changes the
\* master PIN.  log is the set of keypads that have sent the master PIN in a
\* KeypadMenuPinRequest and no KeypadExitMenuRequest since.

\* the device thread processes a message of the PIN menu of the keypad
PinDeliver(msg) ==
  /\ recv_alive
  /\ LET r == _process_msg(Begin, msg)
     IN /\ _armed' = r.armed
        /\ _time_left' = r.time_left
        /\ _time_left_timer' = r.tlt
        /\ timers' = r.timers
        /\ _siren_timer' = r.siren_timer
        /\ sequence' = r.sequence
        /\ _master_pin' = r.master_pin
        /\ _components' = r.components
        /\ siren_on' = r.siren_on
        /\ entry_cd' = r.entry_cd
        /\ recv_alive' = ~r.exc
        /\ cd' = cd
        /\ last' = Log("msg", msg, FALSE, r)
  /\ log' = IF msg.cls = "KeypadMenuPinRequest" /\ msg.pin = _master_pin
              THEN log \cup {msg.sn}
            ELSE IF msg.cls = "KeypadExitMenuRequest" THEN log \ {msg.sn}
            ELSE log
  /\ UNCHANGED <<_duress_pin, _pins, codec, w, line, rx, pipe, dev>>

PinEnterMenu ==
  \E sn \in {"KP"} :
    PinDeliver([sn |-> sn, cls |-> "KeypadEnterMenuRequest", c_sn |-> None, pin |-> None,
                event_type |-> 0])

PinMenuPin ==
  \E sn \in {"KP"}, pin \in Pins :
    PinDeliver([sn |-> sn, cls |-> "KeypadMenuPinRequest", c_sn |-> None, pin |-> pin,
                event_type |-> 0])

KeypadNewPinRequest ==
  \E sn \in {"KP"}, pin \in Pins :
    PinDeliver([sn |-> sn, cls |-> "KeypadNewPinRequest", c_sn |-> None, pin |-> pin,
                event_type |-> 0])

PinExitMenu ==
  \E sn \in {"KP"} :
    PinDeliver([sn |-> sn, cls |-> "KeypadExitMenuRequest", c_sn |-> None, pin |-> None,
                event_type |-> 0])

PinInit ==
  /\ _armed = ArmedState.OFF
  /\ _time_left = 0
  /\ _time_left_timer = [st |-> "unset", stale |-> FALSE]
  /\ timers = NoTimers
  /\ _siren_timer = None
  /\ sequence = 0
  /\ _master_pin = MasterPin
  /\ _duress_pin = DuressPin
  /\ _pins = <<>>
  /\ _components \in Configs
  /\ recv_alive = TRUE
  /\ siren_on = FALSE
  /\ entry_cd = FALSE
  /\ cd = NoCd
  /\ value = None
  /\ frame = <<>>
  /\ stage = "idle"
  /\ parsed = None
  /\ w = <<>>
  /\ line = [level |-> 0, tick |-> 0, missed |-> 0]
  /\ rx = None
  /\ pipe = <<>>
  /\ log = {}
  /\ dev = None
  /\ last = [exc |-> FALSE, sent |-> <<>>, calls |-> <<>>, path |-> {},
             branch |-> "none", tl0 |-> -1,
             msg |-> [sn |-> None, cls |-> "none", pin |-> None, event_type |-> 0],
             stale |-> FALSE, op |-> "init"]

PinNext == PinEnterMenu \/ PinMenuPin \/ KeypadNewPinRequest \/ PinExitMenu

PinSpec == PinInit /\ [][PinNext]_vars


\* ----------------------------------------------------------------- claims
Armed == {ArmedState.ARMED_AWAY, ArmedState.ARMED_HOME}

IsMsg(cls) == last.op = "msg" /\ last.msg.cls = cls

\* the component enrolled under serial sn
Enrolment(sn) == CHOOSE c \in { _components[i] : i \in DOMAIN _components } : c.sn = sn

\* a PIN that disarms: the master PIN, the duress PIN or an additional PIN
DisarmPins == {_master_pin, _duress_pin} \cup { _pins[i].pin : i \in DOMAIN _pins }

C2_ExitCountdown ==
  cd.kind = "arm" =>
    /\ cd.n < settings.exit_delay =>
         /\ _armed = ArmedState.ARMING_AWAY
         /\ _time_left = settings.exit_delay - 1 - cd.n
         /\ Live(Begin) = 1
    /\ cd.n >= settings.exit_delay => _armed = ArmedState.ARMED_AWAY
    /\ last.op = "tick" =>
         Count(last.calls, "arm_away") = (IF cd.n = settings.exit_delay THEN 1 ELSE 0)

\* C3: a KeypadOffRequest from the enrolled keypad sets the armed state to OFF,
\* cancels the countdown timer and stops the siren.
C3_OffRequestDisarms ==
  IsMsg("KeypadOffRequest") =>
    /\ _armed = ArmedState.OFF
    /\ ~is_alive(_time_left_timer.st)
    /\ ~siren_on

\* C4: after a trip that started an entry countdown with entry delay D and no
\* other message, alarm() has not been called before the D-th run of the
\* countdown callback and has been called exactly once from the D-th run on.
C4_AlarmAfterEntryDelay ==
  cd.kind = "trip" =>
    /\ cd.n < cd.d => cd.alarms = 0
    /\ cd.n >= cd.d => cd.alarms = 1

\* C5: a trip handled while time_left is 0 sets time_left to entry_delay_home in
\* ARMED_HOME and to entry_delay_away in ARMED_AWAY, and does not raise the
\* alarm in the handler.
C5_TripDelayByMode ==
  (last.op = "msg" /\ "_trip" \in last.path /\ last.tl0 # -1) =>
    /\ last.tl0 = EntryDelay(_armed)
    /\ "_alarm()" \notin last.path

\* C6: a trip handled while an entry countdown is in progress leaves time_left
\* and the countdown timers unchanged.
C6_NoRetrip ==
  [][((MotionSensorMessage \/ EntrySensorMessage) /\ "_trip" \in last'.path /\ entry_cd) =>
       UNCHANGED <<_time_left, _time_left_timer, timers>>]_vars

\* C7: a countdown tick that was scheduled before a disarm does nothing when it
\* runs: it does not decrement time_left, change the armed state or raise the
\* alarm, also when the station was armed again in between.
C7_DisarmCancelsCountdown ==
  (last.op = "tick" /\ last.stale) => last.branch = "cancel"

\* C8: a disarm-PIN request with the duress PIN in an armed state sets the state
\* to OFF, sends the valid-disarm response and calls alarm() without
\* start_siren().
C8_DuressSilentAlarm ==
  [][(KeypadAlarmPinRequest /\ last'.msg.pin = _duress_pin /\ _armed \in Armed) =>
       /\ _armed' = ArmedState.OFF
       /\ last'.sent = <<"BaseStationKeypadAlarmPinResponse.DISARM">>
       /\ Count(last'.calls, "alarm") = 1
       /\ Count(last'.calls, "start_siren") = 0]_vars

\* the sensor setting matches the armed mode
Matches(setting, armed) ==
  \/ setting = EntrySensorSetting.ALARM_HOME_AND_AWAY /\ armed \in Armed
  \/ setting = EntrySensorSetting.ALARM_AWAY_ONLY /\ armed = ArmedState.ARMED_AWAY

\* C9: a trip from a sensor enrolled with instant_trip = true whose setting
\* matches the armed mode raises the alarm in the handler and starts no
\* countdown.
C9_InstantTrip ==
  [][((\/ MotionSensorMessage /\ last'.msg.event_type = MotionSensorEventType.MOTION
       \/ EntrySensorMessage /\ last'.msg.event_type = EntrySensorEventType.OPEN)
      /\ Enrolment(last'.msg.sn).instat_trigger = True
      /\ Matches(Enrolment(last'.msg.sn).setting, _armed)) =>
       "_alarm()" \in last'.path]_vars

\* C10: an _alarm() call made while the siren started by an earlier _alarm() is
\* still on does not call start_siren() and leaves the siren timer as it is.
C10_NoSirenRestart ==
  [][(~TimerExpire /\ "_alarm()" \in last'.path /\ siren_on) =>
       /\ Count(last'.calls, "start_siren") = 0
       /\ _siren_timer' = _siren_timer]_vars

\* C10 witness: _alarm() has run with the siren on and has not restarted it
C10_Witness ==
  /\ siren_on
  /\ _siren_timer = "initial"
  /\ "_alarm()" \in last.path
  /\ Count(last.calls, "start_siren") = 0

\* a step in which the device thread has processed a message of class cls
Processed(cls) == last'.op = "msg" /\ last'.msg.cls = cls /\ ~TimerExpire

\* C11: a keychain-remote message of a remote whose setting is DISABLED changes
\* neither the armed state nor time_left, the countdown timers or the siren;
\* with any other setting AWAY starts arming, OFF disarms, and PANIC calls
\* alarm() unless the setting is PANIC_DISABLED.
C11_KeychainRemote ==
  [][Processed("KeychainRemoteMessage") =>
       LET setting == Enrolment(last'.msg.sn).setting
           e == last'.msg.event_type
       IN IF setting = KeychainRemoteSetting.DISABLED
          THEN UNCHANGED <<_armed, _time_left, _time_left_timer, timers,
                           _siren_timer, siren_on>>
          ELSE /\ e = KeychainRemoteEventType.AWAY =>
                    _armed' = ArmedState.ARMING_AWAY /\ "_arm_away" \in last'.path
               /\ e = KeychainRemoteEventType.OFF => _armed' = ArmedState.OFF
               /\ e = KeychainRemoteEventType.PANIC =>
                    Count(last'.calls, "alarm") =
                      (IF setting = KeychainRemoteSetting.PANIC_DISABLED THEN 0 ELSE 1)]_vars

\* C12: a message from a serial that is not enrolled, and a base-station-to-
\* keypad message, is dropped: the armed state, time_left, the components, the
\* PINs, the timers, the siren and the sequence counter are unchanged, nothing
\* is sent, no hook is called and no exception is raised.
C12_UnenrolledDropped ==
  [][Processed("any") =>
       /\ UNCHANGED <<_armed, _time_left, _time_left_timer, timers, _siren_timer,
                      sequence, _master_pin, _duress_pin, _pins, _components,
                      recv_alive, siren_on>>
       /\ last'.sent = <<>>
       /\ last'.calls = <<>>
       /\ ~last'.exc]_vars

\* C12 witness: a message was dropped during an exit countdown, after the
\* base station had sent messages
C12_Witness ==
  /\ IsMsg("any")
  /\ _armed = ArmedState.ARMING_AWAY
  /\ is_alive(_time_left_timer.st)
  /\ _time_left > 0
  /\ sequence > 0

\* the serials that are keys of _components
Serials(components) == { components[i].sn : i \in DOMAIN components }

\* a step that has processed an add-component menu request
ProcessedAdd == last'.op = "msg" /\ last'.msg.cls \in DOMAIN AddRequestType

\* C13: an add-component menu request leaves in the components map the
\* serials that were in it and the serial of the request, a new serial with the
\* device type of the request; a remove-component-confirm request leaves the
\* serials that were in it but the one of the request; no serial is ever in the
\* map twice.
C13_ComponentMap ==
  [][/\ ProcessedAdd =>
          /\ Serials(_components') = Serials(_components) \cup {last'.msg.c_sn}
          /\ last'.msg.c_sn \notin Serials(_components) =>
               \E i \in DOMAIN _components' :
                 /\ _components'[i].sn = last'.msg.c_sn
                 /\ _components'[i].type = AddRequestType[last'.msg.cls]
     /\ Processed("KeypadRemoveComponentConfirmMenuRequest") =>
          Serials(_components') = Serials(_components) \ {last'.msg.c_sn}
     /\ Cardinality(Serials(_components')) = Len(_components')]_vars

\* msg_class(..., ResponseType.COMPONENT_ALREADY_ADDED)
ComponentAlreadyAddedResponse ==
  [KeypadAddKeypadMenuRequest |->
     "BaseStationKeypadAddKeypadMenuResponse.COMPONENT_ALREADY_ADDED",
   KeypadAddKeychainRemoteMenuRequest |->
     "BaseStationKeypadAddKeychainRemoteMenuResponse.COMPONENT_ALREADY_ADDED",
   KeypadAddMotionSensorMenuRequest |->
     "BaseStationKeypadAddMotionSensorMenuResponse.COMPONENT_ALREADY_ADDED",
   KeypadAddEntrySensorMenuRequest |->
     "BaseStationKeypadAddEntrySensorMenuResponse.COMPONENT_ALREADY_ADDED"]

\* C14: an add-component menu request for a serial that is not in the
\* components map is answered with the response of its type carrying
\* COMPONENT_ADDED and enrolls the serial; for a serial that is in the map it is
\* answered with the same response type carrying COMPONENT_ALREADY_ADDED and
\* leaves the map unchanged.
C14_AddComponentResponse ==
  [][ProcessedAdd =>
       IF last'.msg.c_sn \notin Serials(_components)
       THEN /\ last'.sent = <<ComponentAddedResponse[last'.msg.cls]>>
            /\ last'.msg.c_sn \in Serials(_components')
       ELSE /\ last'.sent = <<ComponentAlreadyAddedResponse[last'.msg.cls]>>
            /\ UNCHANGED _components]_vars

\* C15: a menu session ends with the ExitMenuRequest, and none is open before
\* the first EnterMenuRequest; a remove-component-confirm request that follows
\* without EnterMenuRequest and a valid MenuPinRequest is outside a session:
\* it removes no component and is not answered.
C15_MenuSession ==
  [][((last.op = "init" \/ IsMsg("KeypadExitMenuRequest"))
      /\ Processed("KeypadRemoveComponentConfirmMenuRequest")) =>
       /\ UNCHANGED _components
       /\ last'.sent = <<>>]_vars

\* ----------------------------------------------------- claims on the codec
\* Message.factory ran on the frame
Parsed == parsed.exc # "pending"

Accepted == parsed.exc = "None"

\* the discriminators of a leaf class: payload length code, origin type,
\* msg_type, info_type, event_type; -1 where the class fixes none
Discriminator(cls) ==
  LET m == Msg(Serial, cls, <<0, 0, 0, 0>>)
  IN CASE cls \in KeypadClasses -> <<plc(m), OriginType.KEYPAD, -1, -1, event_type(m)>>
       [] cls \in SensorClasses -> <<plc(m), Attr(SensorMessage_subclasses, cls), -1, -1, -1>>
       [] cls = "BaseStationKeypadSensorErrorUpdate" ->
            <<plc(m), OriginType.BASE_STATION, msg_type(m), info_type(m), -1>>
       [] OTHER -> <<plc(m), OriginType.BASE_STATION, msg_type(m), info_type(m), event_type(m)>>

\* the discriminators a frame carries, where the factories read them
FrameDiscriminator(b) ==
  LET p == ReceivedPayload(b)
      f == Slice(b, 8 + Len(p) + 1, Len(b))
      origin == IF At(b, 2) = 17 THEN Bits(At(p, 0), 0, 4) ELSE At(p, 0)
  IN IF origin = OriginType.BASE_STATION /\ Len(f) >= 6
       THEN <<At(b, 2), origin, At(p, 1), Bits(At(f, 5), 0, 4), p[Len(p)]>>
       ELSE <<At(b, 2), origin, -1, -1, p[Len(p)]>>

MatchesLeaf(b) ==
  \E cls \in LeafClasses :
    \A i \in 1..5 : Discriminator(cls)[i] \in {-1, FrameDiscriminator(b)[i]}

\* the vendor code, the payload length code and the checksum byte of a frame
\* are right
ChecksPass(b) ==
  /\ Len(b) >= 9
  /\ Slice(b, 0, 2) = VENDOR_CODE
  /\ At(b, 2) \in DOMAIN PAYLOAD_LENGTHS
  /\ At(b, 8 + PAYLOAD_LENGTHS[At(b, 2)]) = sum(ReceivedPayload(b)) % 256

\* C16: every leaf message can be encoded, the encoded frame parses to a
\* message of the same class with the same fields, and encoding the parsed
\* message gives the frame back.
C16_RoundTrip ==
  /\ stage # "new" => stage \in {"encoded", "flipped", "forged", "truncated"}
  /\ (stage = "encoded" /\ Parsed) =>
       /\ Accepted
       /\ parsed.out.cls = value.cls
       /\ parsed.out = value
       /\ __bytes__(parsed.out) = frame

\* C17: a frame that parse returns a message for carries, as its checksum
\* byte, the sum modulo 256 of the payload bytes it carries.
C17_ChecksumOfReceivedPayload ==
  (Parsed /\ Accepted) =>
    At(frame, 8 + PAYLOAD_LENGTHS[At(frame, 2)]) = sum(ReceivedPayload(frame)) % 256

\* the index of the byte in which the frame differs from the encoded message
FlippedByte == CHOOSE i \in 0..(Len(frame) - 1) : At(frame, i) # At(encode(value).out, i)

\* the flipped bit is in the sequence nibble of the footer of a base station
\* message
InFooterSequenceNibble ==
  /\ value.cls \in BaseStationClasses
  /\ FlippedByte = Len(frame) - 1
  /\ Bits(At(frame, FlippedByte), 0, 4) = Bits(At(encode(value).out, FlippedByte), 0, 4)

\* C18: a valid encoded message with one bit flipped, anywhere but in the
\* footer sequence nibble of a base station message, does not parse.
C18_BitFlipRejected ==
  (stage = "flipped" /\ Parsed /\ ~InFooterSequenceNibble) => ~Accepted

\* C19: a frame with a known payload length code and the right checksum whose
\* discriminators are those of no leaf class does not parse: no generic
\* Message comes back for it.
C19_UnrecognizedFails ==
  (Parsed /\ ChecksPass(frame) /\ ~MatchesLeaf(frame)) =>
    /\ ~Accepted
    /\ parsed.exc \notin ValueErrors

\* C20: no two leaf classes have the same discriminators, and an encoded
\* message parses to its own class.
C20_OneLeafPerDiscriminator ==
  /\ \A c1, c2 \in LeafClasses : Discriminator(c1) = Discriminator(c2) => c1 = c2
  /\ (stage = "encoded" /\ Parsed /\ Accepted) => parsed.out.cls = value.cls

\* the exceptions that are message parse errors: the ValueErrors, and the
\* NotImplementedError of a factory that found no subclass
ParseErrors == ValueErrors \cup {"NotImplementedError"}

\* C21: Message.factory returns a message or fails with a message parse error
\* for every byte string; a frame of fewer than 9 bytes, or of fewer than
\* 8 + PAYLOAD_LENGTHS[plc] + 1 bytes, fails with a parse error and not with
\* an index fault.
C21_ParseErrorsOnly ==
  Parsed => (Accepted \/ parsed.exc \in ParseErrors)

\* ------------------------------------------- claims on the serial packing
\* C27: a serial of at most five characters with codes in 0x30..0x6F, packed
\* with any flags hb and lb and unpacked again, comes back with the same
\* characters and the same flags; a shorter serial is padded with blanks.
C27_AsciiRoundTrip ==
  stage = "unpacked" =>
    /\ parsed.exc = "None"
    /\ parsed.out = value

\* ---------------------------------------------------- claims on the radio
\* C22: when the demodulator has taken in the pulses send_wave generates for
\* a frame, its buffer holds the bits of the frame, least significant bit of
\* each byte first, and decode gives the bytes of the frame back.
C22_ModemRoundTrip ==
  (stage = "wave" /\ Len(log) >= 1) =>
    /\ log[1][1] = BitString(frame)
    /\ log[1][2] = Return(frame)

\* the buffer of a completed frame holds an X symbol or fewer than 5 symbols
Unusable(bits) == (\E i \in DOMAIN bits : bits[i] = "X") \/ Len(bits) < 5

\* C24: when the listener takes a completed frame whose buffer holds an X
\* symbol or fewer than 5 symbols, nothing is written to the pipe and the
\* fields of the decoder (buffer, preamble flags, sync buffer, time of the
\* last edge, done flag) are those of a listener that has just started, so
\* that it takes the next frame as a new listener would.
C24_RejectAndResume ==
  [][(rx._rx_done /\ Unusable(rx._rx_buffer) /\ log' # log) =>
       /\ pipe' = pipe
       /\ rx' = Listening
       /\ log'[Len(log')][2].exc = "DecodeError"]_vars

\* a frame with an X symbol was rejected, and the frame of the transmission
\* that followed was decoded and written to the pipe in full
C24_Witness ==
  \E i, j \in DOMAIN log :
    /\ i < j
    /\ \E k \in DOMAIN log[i][1] : log[i][1][k] = "X"
    /\ log[i][2].exc = "DecodeError"
    /\ Len(dev) = 2
    /\ log[j][2] = Return(dev[2])
    /\ pipe = dev[2]

\* the step plays a pulse that changes the level of the line, so that
\* _recv_cbf is called
EdgePlayed ==
  /\ w # <<>>
  /\ w' = Tail(w)
  /\ Len(Head(w)) > 1
  /\ Head(w)[1] # line.level

\* the edge now played comes less than 0.4 ms after the edge before it
Glitch ==
  /\ rx[1].t # <<>>
  /\ ~rx[1].skip
  /\ line.tick - rx[1].t[1] < 400

\* the symbols, the preamble state and the time of the last edge
Demodulated(r) == <<r.encoded, r.sync_buffer, r.start_flag0, r.start_flag1, r.t, r.done>>

\* C23: an edge that comes less than 0.4 ms after the edge before it is a
\* glitch.  It and the edge after it are skipped: neither adds a symbol nor
\* changes the preamble state.  A transmission that follows is demodulated to
\* the same symbols as on a line without the glitch.
C23_GlitchSkipped ==
  /\ [][(EdgePlayed /\ ~rx[1].done /\ Glitch) =>
          (rx'[1].skip /\ Demodulated(rx'[1]) = Demodulated(rx[1]))]_vars
  /\ [][(EdgePlayed /\ ~rx[1].done /\ rx[1].skip) =>
          (~rx'[1].skip /\ Demodulated(rx'[1]) = Demodulated(rx[1]))]_vars
  /\ [](rx[1].done <=> rx[2].done)
  /\ [](rx[1].done => rx[1].encoded = rx[2].encoded)

C23_Witness ==
  /\ stage = "script-glitch"
  /\ Len(log) = 1
  /\ log[1][1] = log[1][2]
  /\ parsed.exc = "None"
  /\ parsed.out.cls = "EntrySensorMessage"

\* C25: the sequence counter of a device is a 4-bit value.  After a
\* transmission that succeeds it is (old + 4) mod 16 for a keypad and
\* (old + 1) mod 16 for any other device; after one that fails it is unchanged.
C25_SequenceMod16 ==
  [][\A d \in DOMAIN dev' :
       /\ dev'[d].sequence \in 0..15
       /\ (Len(log') = 3 /\ log'[1] = d /\ log'[2] = "sent") =>
             dev'[d].sequence = (dev[d].sequence + (IF d = "Keypad" THEN 4 ELSE 1)) % 16
       /\ (Len(log') = 3 /\ log'[1] = d /\ log'[2] = "failed") =>
             dev'[d].sequence = dev[d].sequence]_vars

\* the places in log of the transmissions of msg
Transmissions(msg) == { i \in DOMAIN log : log[i][1] = "tx" /\ log[i][2] = msg }

\* the call of Sensor._send for msg has returned
Returned(msg) == \A k \in DOMAIN w : w[k].msg # msg

\* C26: an event of a sensor is transmitted three times in all, two seconds
\* apart, unless a newer event of the sensor comes first: from then on the
\* older message is not transmitted again.
C26_ThreeUnlessSuperseded ==
  \A e \in Events :
    LET msg == log[e][2]
        tx == Transmissions(msg)
        newer == { n \in Events : n > e }
    IN /\ Cardinality(tx) <= 3
       /\ \A i, j \in tx : (i < j /\ ~\E k \in tx : i < k /\ k < j) => log[j][3] = log[i][3] + 2
       /\ (newer = {} /\ Returned(msg)) => Cardinality(tx) = 3
       /\ \A n \in newer : \A i \in tx : i < n

\* C28: the frames written to the pipe reach _process_msg once each, one
\* message per frame, in the order written, also when more than one frame is
\* in the pipe at the time of a read.
C28_PipeFifo ==
  recv_alive =>
    /\ Len(log) <= Len(dev)
    /\ \A i \in DOMAIN log : Return(log[i]) = Message_factory(dev[i])
    /\ pipe = <<>> => Len(log) = Len(dev)

\* C29: a frame that does not parse is dropped: nothing is handed to
\* _process_msg, and the device thread runs on.
C29_DropAndContinue ==
  [][(Len(pipe') < Len(pipe)) =>
       /\ recv_alive'
       /\ parsed'.exc # "None" => log' = log]_vars

\* the components whose last heartbeat is older than the timeout
Stale == SelectSeq(dev, LAMBDA c : /\ c.last_heartbeat # <<>>
                                   /\ value # <<>>
                                   /\ line.tick - c.last_heartbeat[1] > value[1])

\* C30: at any time exactly one run of the heartbeat supervision is
\* scheduled, whatever the number of components; a run ends without an
\* exception and emits an alert for the components whose last heartbeat is
\* older than HEARTBEAT_TIMEOUT and for no other.
C30_HeartbeatSupervision ==
  /\ [](w[1] + w[2] = 1)
  /\ [][w'[1] = w[1] - 1 =>
          /\ parsed'.exc = "None"
          /\ value # <<>> =>
               log' = log \o [i \in DOMAIN Stale |-> <<line.tick, Stale[i].sn>>]]_vars

\* a button of the keypad was pressed with the keypad's fields as dev
Pressed(button) == Len(log') = 4 /\ log'[1] = button

\* C31: a digit entered on the alarm status page moves the keypad to the page
\* ENTER_DISARM_PIN with that digit as the entry buffer, and the fourth digit
\* entered there sends a KeypadDisarmPinRequest with the four digits.
C31_DisarmPinEntry ==
  [][(Pressed("numpad") /\ log'[2] \in 0..9) =>
       /\ dev._page = Page.ALARM_STATE =>
            /\ dev'._page = Page.ENTER_DISARM_PIN
            /\ dev'._entry_buffer = <<log'[2]>>
       /\ (/\ dev._page = Page.ENTER_DISARM_PIN
           /\ dev._entry_buffer # "unset"
           /\ Len(dev._entry_buffer) = 3) =>
            log'[4] = << <<"KeypadDisarmPinRequest", dev.sequence,
                           Append(dev._entry_buffer, log'[2])>> >>]_vars

\* the keypad shows a page of the menu itself, not of a submenu
TopLevel(k) ==
  /\ in_menu(k)
  /\ k._add_component_menu_page = None
  /\ k._remove_component_menu_page = <<>>

\* the place of the menu page m in Keypad.Menu
MenuIndex(m) == CHOOSE i \in DOMAIN Menu : Menu[i] = m

\* C32: in the menu, home moves to the next page in the order CHANGE_PIN,
\* DIALING_PREFIX, ADD_COMPONENT, REMOVE_COMPONENT, TEST, EXIT_MENU (so that
\* every page is reached from CHANGE_PIN by home alone), off moves to the
\* previous page, and away selects the page: the press changes the keypad or
\* sends a message.
C32_MenuNavigation ==
  [][TopLevel(dev) =>
       /\ (Pressed("home") /\ dev._menu_page # "EXIT_MENU") =>
            dev'._menu_page = Menu[MenuIndex(dev._menu_page) + 1]
       /\ (Pressed("off") /\ dev._menu_page # "CHANGE_PIN") =>
            dev'._menu_page = Menu[MenuIndex(dev._menu_page) - 1]
       /\ Pressed("away") =>
            \/ [dev' EXCEPT !._backlight_timer = dev._backlight_timer] # dev
            \/ log'[4] # <<>>]_vars

\* the Timers of the countdown that exist
CountdownTimers == <<_time_left_timer>> \o timers

\* a thread has executed a line of its handler and has not finished it
Inside(th) == th.pc \notin {"recv", "raise", "end"} \cup {Handlers[c] : c \in DOMAIN Handlers}

\* the Timer threads that are past the first line of _countdown
TimersInside ==
  { i \in DOMAIN CountdownTimers :
      /\ CountdownTimers[i].st = "running"
      /\ CountdownTimers[i].th.pc # "l178" }

\* C33: the handlers of the base station (_process_msg in the device thread,
\* _countdown in the Timer threads) are serialized as under one lock held for
\* the whole handler: while a thread is between the first and the last line
\* of its handler, no other thread is inside a handler.
C33_HandlersSerialized ==
  Cardinality(TimersInside) + (IF recv_alive /\ Inside(dev) THEN 1 ELSE 0) <= 1

\* the demodulator that listens, before and after a step, with common names
Demod == View(rx[dev], dev)

\* the pulse width the demodulator measured at the edge of this step
MeasuredNow == Measured(Demod, w'[2])

\* the edge of this step ended a 2 ms delimiter
DelimiterNow == MeasuredNow > 1900 /\ MeasuredNow <= 2100

\* C34: bits are collected only after a complete preamble.  In both
\* demodulators a preamble flag is set only at the end of a 2 ms pulse that
\* follows four 1 symbols: preamble_low_seen by one that ends at level 1,
\* preamble_high_seen by one that ends at level 0 after a level-1 delimiter
\* was accepted; symbols are added to the bits only while preamble_high_seen
\* holds, and at the end of the transmission the bits are exactly the symbols
\* received since preamble_high_seen was last set.
C34_PreambleBeforeBits ==
  [][stage' = "edge" =>
       /\ (Demod'.low /\ ~Demod.low) =>
            DelimiterNow /\ w'[1] = 1 /\ log[dev].last4 = <<"1", "1", "1", "1">>
       /\ (Demod'.high /\ ~Demod.high) =>
            /\ DelimiterNow /\ w'[1] = 0
            /\ log[dev].last4 = <<"1", "1", "1", "1">>
            /\ log[dev].lowAcc
            /\ Demod'.bits = <<>>
       /\ (DelimiterNow /\ log[dev].last4 # <<"1", "1", "1", "1">>) =>
            (Demod'.high = Demod.high /\ ~Demod'.low)
       /\ (Demod'.bits # Demod.bits /\ Demod'.bits # <<>>) => Demod.high
       /\ Demod'.done => Demod'.bits = log'[dev].since]_vars

\* a transmission has ended with as many bits as are followed, none of them
\* from before the preamble
C34_Witness ==
  /\ stage = "edge"
  /\ Demod.done
  /\ Len(Demod.bits) = MaxBits
  /\ log[dev].lowAcc

\* C35: an edge that ends a pulse longer than 2.1 ms ends the transmission
\* exactly if preamble_high_seen holds; otherwise it clears
\* preamble_low_seen, and after it preamble_high_seen is set only after a new
\* level-1 delimiter was accepted.
C35_LongPulseResets ==
  [][stage' = "edge" =>
       /\ MeasuredNow > 2100 =>
            /\ Demod'.done <=> Demod.high
            /\ ~Demod.high => ~Demod'.low
       /\ (Demod'.high /\ ~Demod.high) => log[dev].lowSinceReset]_vars

\* the same for RFUtils._recv_cbf alone
C35_LongPulseResets_RFUtils ==
  [][(stage' = "edge" /\ dev = 2) =>
       /\ MeasuredNow > 2100 =>
            /\ Demod'.done <=> Demod.high
            /\ ~Demod.high => ~Demod'.low
       /\ (Demod'.high /\ ~Demod.high) => log[dev].lowSinceReset]_vars

\* a long pulse came after preamble_low_seen was set and before
\* preamble_high_seen was
C35_LongPulseSeen ==
  /\ stage = "edge"
  /\ w[2] = 3000
  /\ log[dev].lowAcc
  /\ ~log[dev].lowSinceReset
  /\ ~Demod.done

\* in Transceiver._listen_cbf preamble_high_seen is set by a level-0
\* delimiter although a long pulse came after the last level-1 delimiter
C35_HighAfterReset ==
  /\ stage = "edge"
  /\ dev = 1
  /\ Demod.high
  /\ ~log[dev].lowSinceReset

\* the place of the first 2 ms pulse of a pulse train
FirstDelimiter(train) ==
  CHOOSE i \in 1..Len(train) :
    /\ Len(train[i]) = 2 /\ train[i][2] = 2000
    /\ \A j \in 1..(i - 1) : train[j][2] # 2000

\* the levels of the n pulses that follow the preamble in a pulse train
LevelsAfterPreamble(train, n) ==
  [k \in 1..n |-> train[FirstDelimiter(train) + 1 + k][1]]

\* the pulses of a message after the preamble: its bits, the four extra
\* pulses of a base station message, and the four trailer pulses
PulsesOf(m) ==
  8 * Len(__bytes__(m)) + (IF m.cls \in BaseStationClasses THEN 4 ELSE 0) + 4

\* a sequence of levels that starts low and flips after every pulse
Alternates(levels) ==
  /\ levels[1] = 0
  /\ \A k \in 1..(Len(levels) - 1) : levels[k + 1] = 1 - levels[k]

\* C36: in the pulse train that send_wave or send_script builds for a
\* message, the pulse after the preamble is low and the level flips after
\* every pulse up to the last of the four 1000 microsecond trailer pulses,
\* the extra pulses of a base station message included, and the levels are
\* the same in both back-ends.
C36_PolarityAlternates ==
  [][(stage = "new" /\ stage' \in {"wave", "script"}) =>
       /\ Alternates(LevelsAfterPreamble(w', PulsesOf(value)))
       /\ LevelsAfterPreamble(send_wave(value), PulsesOf(value))
            = LevelsAfterPreamble(send_script(value, 0), PulsesOf(value))]_vars

\* the part of C36 that holds: over the bits of the message the level starts
\* low and flips after every pulse, the same in both back-ends
C36_DataAlternates ==
  [][(stage = "new" /\ stage' \in {"wave", "script"}) =>
       /\ Alternates(LevelsAfterPreamble(w', 8 * Len(frame')))
       /\ LevelsAfterPreamble(send_wave(value), 8 * Len(frame'))
            = LevelsAfterPreamble(send_script(value, 0), 8 * Len(frame'))]_vars

\* send_script alternates to the end for a message of a component, which
\* has no extra pulses
C36_ScriptComponentAlternates ==
  [][(stage = "new" /\ stage' = "script" /\ value.cls \notin BaseStationClasses) =>
       Alternates(LevelsAfterPreamble(w', PulsesOf(value)))]_vars

\* C37: at most one countdown Timer is pending at any time (so that
\* _time_left goes down by at most 1 per second).
C37_OneCountdownTimer == Live(Begin) <= 1

\* the callback of one countdown Timer has lowered _time_left while another
\* countdown Timer started for an earlier exit delay is still waiting
C37_TwoTimersCounting ==
  /\ last.op = "tick"
  /\ last.branch = "tick_arming"
  /\ Live(Begin) = 2
  /\ _time_left < settings.exit_delay - 1

\* a step in which the device thread has processed the trip (MOTION, OPEN)
\* of a motion or entry sensor enrolled with the setting NO_ALARM_ALERT_ONLY
AlertOnlyTrip ==
  /\ \/ Processed("MotionSensorMessage")
        /\ last'.msg.event_type = MotionSensorEventType.MOTION
     \/ Processed("EntrySensorMessage")
        /\ last'.msg.event_type = EntrySensorEventType.OPEN
  /\ Enrolment(last'.msg.sn).setting = EntrySensorSetting.NO_ALARM_ALERT_ONLY

\* C38: the trip of a motion or entry sensor whose setting is
\* NO_ALARM_ALERT_ONLY calls neither alarm() nor start_siren(), whatever the
\* armed state and with or without instant trip, and it leaves behind
\* nothing that raises the alarm later: the siren, the siren timer,
\* _time_left and the countdown Timers are as they were.
C38_AlertOnlyNeverAlarms ==
  [][AlertOnlyTrip =>
       /\ Count(last'.calls, "alarm") = 0
       /\ Count(last'.calls, "start_siren") = 0
       /\ "_alarm()" \notin last'.path
       /\ siren_on' = siren_on
       /\ _siren_timer' = _siren_timer
       /\ _time_left' = _time_left
       /\ _time_left_timer' = _time_left_timer
       /\ timers' = timers
       /\ _armed' = _armed]_vars

\* the device thread has processed the OPEN of an entry sensor enrolled with
\* NO_ALARM_ALERT_ONLY and instant trip while the station was armed
C38_Witness ==
  /\ last.op = "msg"
  /\ last.msg.cls = "EntrySensorMessage"
  /\ last.msg.event_type = EntrySensorEventType.OPEN
  /\ Enrolment("ES").setting = EntrySensorSetting.NO_ALARM_ALERT_ONLY
  /\ Enrolment("ES").instat_trigger = True
  /\ _armed \in Armed
  /\ last.exc
  /\ last.calls = <<>>

\* a step in which the device thread has processed a message of a motion, an
\* entry or a glassbreak sensor
SensorProcessed ==
  \/ Processed("MotionSensorMessage")
  \/ Processed("EntrySensorMessage")
  \/ Processed("GlassbreakSensorMessage")

\* C39: while the armed state is OFF or ARMING_AWAY, a message of a motion,
\* an entry or a glassbreak sensor, whatever its event and the setting of the
\* sensor, starts no countdown, leaves _time_left as it is and raises no
\* alarm: the handler returns with nothing changed.
C39_NoTripUnlessArmed ==
  [][(SensorProcessed /\ _armed \in {ArmedState.OFF, ArmedState.ARMING_AWAY}) =>
       /\ _time_left' = _time_left
       /\ _time_left_timer' = _time_left_timer
       /\ timers' = timers
       /\ entry_cd' = entry_cd
       /\ _armed' = _armed
       /\ siren_on' = siren_on
       /\ _siren_timer' = _siren_timer
       /\ last'.calls = <<>>
       /\ last'.path = {}
       /\ ~last'.exc]_vars

\* during the exit delay, with _time_left at 0 and the last tick pending, the
\* device thread has processed the trip of a sensor whose setting alarms in
\* every armed mode
C39_Witness ==
  /\ last.op = "msg"
  /\ last.msg.cls \in {"MotionSensorMessage", "EntrySensorMessage", "GlassbreakSensorMessage"}
  /\ last.msg.event_type = 1 + (IF last.msg.cls = "MotionSensorMessage" THEN 1 ELSE 0)
  /\ Enrolment(last.msg.sn).setting = EntrySensorSetting.ALARM_HOME_AND_AWAY
  /\ _armed = ArmedState.ARMING_AWAY
  /\ _time_left = 0
  /\ Live(Begin) >= 1
  /\ last.path = {}

\* C40: the master PIN changes only when the device thread processes a
\* KeypadNewPinRequest of a keypad that has sent the current master PIN in a
\* KeypadMenuPinRequest and has not left the menu since; a
\* KeypadNewPinRequest without it leaves the master PIN as it is.
C40_MasterPinChange ==
  [][/\ _master_pin' # _master_pin =>
          /\ Processed("KeypadNewPinRequest")
          /\ last'.msg.sn \in log
     /\ (Processed("KeypadNewPinRequest") /\ last'.msg.sn \notin log) =>
          _master_pin' = _master_pin]_vars

\* the part of C40 that holds: only a KeypadNewPinRequest changes the master PIN
C40_OnlyNewPinRequest ==
  [][_master_pin' # _master_pin => Processed("KeypadNewPinRequest")]_vars

\* the master PIN was changed by a KeypadNewPinRequest although no keypad had
\* sent the master PIN in a KeypadMenuPinRequest
C40_ChangedOutsideMenu ==
  /\ _master_pin # MasterPin
  /\ last.msg.cls = "KeypadNewPinRequest"
  /\ log = {}

====
